---- MODULE Spec2Model ----
(***************************************************************************)
(* Model of rpc-performance-monitoring: the synchronization monitor        *)
(* SyncMonitor (src/src/monitoring/sync_monitor.py), the JSON-RPC client   *)
(* IPCClient (src/src/core/ipc_client.py) and the records DesyncEvent and  *)
(* SyncStatus (src/src/storage/models.py).                                 *)
(*                                                                         *)
(* The monitor's collaborators are modelled by what they return to it:     *)
(* ipc_client.get_sync_status() (a status, None or an exception),          *)
(* ipc_client.get_peer_count() (a value), the consensus endpoint (a        *)
(* response) and the registered callbacks (return or raise an Exception).  *)
(* database.store_desync_event catches its own errors; its calls are       *)
(* recorded in store_log.                                                  *)
(*                                                                         *)
(* DesyncEvent objects live in a heap (events); current_desync and         *)
(* active_desyncs hold references into it, as the Python fields do.        *)
(* A poll cycle is one step: the monitor's state has no other writer.      *)
(* Wall-clock time is counted in ticks of 1/TicksPerSecond seconds;        *)
(* time.time() never decreases between two reads.                          *)
(*                                                                         *)
(* The IPC client is modelled on its own: a call of call_method is one     *)
(* step up to its first await and one step from the outcome of the         *)
(* exchange to its return, so calls interleave as coroutines do.  An       *)
(* expression that raises has a value with raised = TRUE, which the        *)
(* enclosing try/except turns into the value of its handler.               *)
(*                                                                         *)
(* Specifications: Spec (the monitor), SpecScenario, SpecThreshold,        *)
(* SpecSeverity, SpecIPC (one client), SpecIds (two clients), SpecStatus.  *)
(***************************************************************************)
EXTENDS Integers, Sequences, FiniteSets, TLC

\* ---------------------------------------------------------------- bounds
MaxCycles == 3
MaxCallbacks == 2

\* the calls of call_method one client makes
MaxRequests == 3
\* the iterations of the collection loop
MaxPolls == 3
\* iterations of each loop when both loops run with failures
LoopCycles == 2
LoopPolls == 2
\* the cycles of the monitor while the collector runs beside it
TaskCycles == 2

\* ------------------------------------------------------------- constants
TicksPerSecond == 4
StartTime == 7

\* Python None for an optional number, and for an empty object slot.
None == -1
NoEvent == 0
\* an exception raised by a collaborator instead of a return value
Raises == -2

\* ------------------------------------------------- inputs of the program
\* config['monitoring']['desync_threshold_blocks']
Thresholds == {3}
\* SyncStatus.current_block values reported by the local node
LocalBlocks == {17, 18}
\* hexadecimal digits of the "result" string of the consensus endpoint
RefResults == {<<1, 4>>, <<7, 8>>}
\* a digit string int(x, 16) rejects
BadHex == <<16>>
\* values returned by ipc_client.get_peer_count()
PeerCounts == {0, 8}
\* ticks the clock advances from one cycle to the next (the sleep of
\* check_interval), and between the two reads of time.time() of a detection
SleepTicks == {1}
DelayTicks == {0, 1}
\* the IPCClient instances
Clients == {1, 2}
\* current_block and highest_block of a models.SyncStatus
StatusHeights == {0, 1, 2, 50, 99, 100}
\* SyncStatus.starting_block: absent, or a non-negative height
StartingBlocks == {None, 0, 50, 100}

\* a float that is the quotient of two integers, den > 0; 0.0 is 0/1, 1.0 is 1/1
Ratio(num, den) == [num |-> num, den |-> den]

\* config['monitoring']['anomaly_baseline_window_minutes']
BaselineWindows == {30, 60, 120}
\* config['monitoring']['metrics_collection_interval_seconds'], in minutes
CollectionIntervals == {20, 70}
\* config['monitoring']['anomaly_threshold_standard_deviations']: 2.0, 2.5
AnomalyThresholds == {Ratio(2, 1), Ratio(5, 2)}
\* config['monitoring']['anomaly_detection_enabled']
DetectionEnabled == {TRUE}

\* prometheus_client.MetricSample, without its labels and its own timestamp
MetricSample(name, value) == [name |-> name, value |-> value]
\* several samples of one metric name in one scrape (one per label set)
Repeat(sample, k) == [i \in 1..k |-> sample]
\* the sample lists a scrape returns
SampleLists == {Repeat(MetricSample("m", 90), 5) \o Repeat(MetricSample("m", 110), 5),
                Repeat(MetricSample("m", 100), 10),
                <<MetricSample("m", 100)>>, <<MetricSample("m", 125)>>,
                <<MetricSample("m", 130)>>, <<MetricSample("m", 160)>>,
                <<MetricSample("m", 70)>>, <<MetricSample("n", 7)>>}
\* blocks-behind values on both sides of every severity boundary
SeverityInputs == {-1, 0, 5, 9, 10, 11, 50, 99, 100, 101, 500, 999, 1000, 1001, 5000}

VARIABLES
    desync_threshold,        \* SyncMonitor.desync_threshold
    consensus_rpc_url,       \* TRUE iff SyncMonitor.consensus_rpc_url is set
    is_running,              \* SyncMonitor.is_running
    database,                \* SyncMonitor.database.db: "open", "failing", "closed"
    step,                    \* where the task of start_monitoring is suspended
    shutdown,                \* the task of start_monitoring has been cancelled
    current_desync,          \* SyncMonitor.current_desync: reference or NoEvent
    active_desyncs,          \* monitoring_state.active_desyncs: list of references
    current_sync_status,     \* monitoring_state.current_sync_status (current_block)
    last_metrics_collection, \* monitoring_state.last_metrics_collection
    events,                  \* heap of the DesyncEvent objects created so far
    desync_callbacks,        \* SyncMonitor.desync_callbacks
    recovery_callbacks,      \* SyncMonitor.recovery_callbacks
    now,                     \* wall clock, in ticks
    cycles,                  \* number of poll cycles run so far
    store_log,               \* history: the calls of store_desync_event
    desync_emitted,          \* history: events handed to the desync registry
    recovery_emitted,        \* history: events handed to the recovery registry
    last,                    \* history: inputs and calls of the latest cycle
    prev_above,              \* history: latest successful cycle had blocks_behind >= threshold
    up_crossings,            \* history: crossings of blocks_behind to >= threshold
    down_crossings,          \* history: crossings of blocks_behind to < threshold
    run_event,               \* history: active slot after the first cycle of the current run
    run_created,             \* history: number of events when the current run began
    run_id,                  \* history: event id in the slot after the first cycle of the run
    scen,                    \* history: matched prefix of the scenario of the spec
    sev_in,                  \* two arguments of _calculate_desync_severity
    sev_out,                 \* its two results, <<>> before the calls
    ipc_path,                \* IPCClient.ipc_path, per client: TRUE iff a path was given
    socket_exists,           \* the file system: Path(ipc_path).exists()
    _use_http,               \* IPCClient._use_http, per client
    _request_id,             \* IPCClient._request_id, per client
    pending,                 \* the calls of call_method suspended at their await
    requests,                \* history: the requests built, in invocation order
    returned,                \* history: what the latest finished operation returned
    sync_status,             \* a models.SyncStatus object
    observed,                \* the properties read from it, <<>> before the read
    probe,                   \* NodeDetector: a probe, its inputs and what it gave
    is_collecting,           \* MetricsCollector.is_collecting
    collection_interval,     \* config: the sleep between two collections, minutes
    anomaly_detection_enabled,
    baseline_window,         \* config: anomaly_baseline_window_minutes
    anomaly_threshold_std,   \* config: anomaly_threshold_standard_deviations
    metric_baselines,        \* metric name -> baseline
    recent_metrics,          \* the snapshots kept in memory, oldest first
    anomaly_callbacks,
    stats,                   \* the MonitoringStats counters the collector writes
    anomaly_log,             \* history: the arguments of database.store_anomaly
    anomaly_notified,        \* history: <<callback, anomaly>> of every callback call
    collected,               \* history: every snapshot collected
    polls,                   \* history: iterations of the loop of start_collection
    poll,                    \* history: what the latest iteration did
    stream,                  \* a metric with float values: what was collected of it
    float_baseline,          \* its entry of metric_baselines, floats as binary64
    float_verdict            \* what _detect_anomalies makes of its next sample

task_vars == <<step, shutdown>>
config_vars == <<desync_threshold, consensus_rpc_url, database, task_vars>>
registry_vars == <<desync_callbacks, recovery_callbacks>>
monitor_vars == <<current_desync, active_desyncs, events>>
status_vars == <<current_sync_status, last_metrics_collection>>
call_vars == <<store_log, desync_emitted, recovery_emitted>>
crossing_vars == <<prev_above, up_crossings, down_crossings, run_event,
                   run_created, run_id>>
sev_vars == <<sev_in, sev_out>>
client_vars == <<ipc_path, socket_exists, _use_http, _request_id, pending,
                 requests, returned>>
model_vars == <<sync_status, observed, probe>>
collector_config == <<collection_interval, anomaly_detection_enabled,
                      baseline_window, anomaly_threshold_std>>
float_vars == <<stream, float_baseline, float_verdict>>
collector_vars == <<is_collecting, collector_config, metric_baselines,
                    recent_metrics, anomaly_callbacks, stats, anomaly_log,
                    anomaly_notified, collected, polls, poll, float_vars>>
\* the state of the components a poll cycle does not touch
other_vars == <<sev_vars, client_vars, model_vars, collector_vars>>
\* the state of the SyncMonitor and its history
sync_monitor_vars == <<desync_threshold, consensus_rpc_url, database, task_vars,
                       is_running,
                       current_desync, active_desyncs, current_sync_status,
                       last_metrics_collection, events, desync_callbacks,
                       recovery_callbacks, now, cycles, store_log, desync_emitted,
                       recovery_emitted, last, prev_above, up_crossings,
                       down_crossings, run_event, run_created, run_id, scen>>
\* what a call of the IPC client leaves alone
client_frame == <<sync_monitor_vars, sev_vars, model_vars, collector_vars,
                  ipc_path, socket_exists, _use_http>>
\* what an iteration of the collection loop leaves alone: all but the clock
collector_frame == <<config_vars, registry_vars, monitor_vars, status_vars,
                     call_vars, crossing_vars, sev_vars, client_vars, model_vars,
                     is_running, cycles, last, scen>>

vars == <<config_vars, registry_vars, monitor_vars, status_vars, call_vars,
          crossing_vars, other_vars, is_running, now, cycles, last, scen>>

\* --------------------------------------------------------- pure functions
RECURSIVE HexToInt(_)
\* int(s, 16): None stands for the ValueError of a non-hexadecimal string
HexToInt(digits) ==
    IF digits = <<>> THEN 0
    ELSE LET d == digits[Len(digits)]
             r == HexToInt(SubSeq(digits, 1, Len(digits) - 1))
         IN IF d > 15 \/ r = None THEN None ELSE 16 * r + d

\* int(time.time()) of the event id
IntSeconds(t) == t \div TicksPerSecond

\* mutant: the tests for "high" and "critical" are made in the wrong order
SeverityHighBeforeCritical(blocks_behind) ==
    IF blocks_behind >= 100 THEN "high"
    ELSE IF blocks_behind >= 1000 THEN "critical"
    ELSE IF blocks_behind >= 10 THEN "medium"
    ELSE "low"

_calculate_desync_severity(blocks_behind) ==
    IF blocks_behind >= 1000 THEN "critical"
    ELSE IF blocks_behind >= 100 THEN "high"
    ELSE IF blocks_behind >= 10 THEN "medium"
    ELSE "low"

\* DesyncEvent.duration
duration(e) ==
    IF e.recovered_at # None /\ e.recovered_at # 0
    THEN e.recovered_at - e.detected_at
    ELSE None

\* DesyncEvent.is_active
is_active(e) == e.recovered_at = None

\* responses of the consensus endpoint
ConsensusResponses ==
    [kind : {"ok"}, result : RefResults \cup {BadHex}]
    \cup [kind : {"status", "noresult", "timeout", "exception"}, result : {<<>>}]

\* mutant: a failed fetch is reported as height 0
GetConsensusZeroOnFailure(resp) ==
    IF ~consensus_rpc_url THEN 0
    ELSE IF resp.kind = "ok" /\ HexToInt(resp.result) # None THEN HexToInt(resp.result)
    ELSE 0

_get_consensus_block_height(resp) ==
    IF ~consensus_rpc_url THEN None
    ELSE IF resp.kind = "ok" THEN HexToInt(resp.result)
    ELSE None

\* mutant: the recovery fields are left out of the dictionary
EventDataWithoutRecovery(e) ==
    [event_id |-> e.event_id,
     timestamp |-> e.detected_at,
     local_block_height |-> e.local_block,
     consensus_block_height |-> e.network_block,
     blocks_behind |-> e.blocks_behind,
     severity |-> e.severity,
     recovery_time |-> None,
     duration_seconds |-> None]

\* the dictionary of _create_detailed_event_data, as far as it describes the event
_create_detailed_event_data(e) ==
    [event_id |-> e.event_id,
     timestamp |-> e.detected_at,
     local_block_height |-> e.local_block,
     consensus_block_height |-> e.network_block,
     blocks_behind |-> e.blocks_behind,
     severity |-> e.severity,
     recovery_time |-> e.recovered_at,
     duration_seconds |-> e.recovery_duration]

\* mutant: the recovered event is left in the list
RemoveNothing(list, x) == list

\* list.remove(x) guarded by "x in list"
Remove(list, x) ==
    IF \E i \in 1..Len(list) : list[i] = x
    THEN LET i == CHOOSE i \in 1..Len(list) :
                      list[i] = x /\ \A j \in 1..(i - 1) : list[j] # x
         IN SubSeq(list, 1, i - 1) \o SubSeq(list, i + 1, Len(list))
    ELSE list

\* a consensus response that stands for "no request was made"
NoResponse == [kind |-> "exception", result |-> <<>>]

NoCycle ==
    [kind |-> "none", local |-> None, resp |-> NoResponse, ref |-> None,
     bb |-> 0, peers |-> None, stored |-> <<>>, dcalls |-> <<>>,
     rcalls |-> <<>>, raised |-> {}, persist |-> "none"]

\* ------------------------------------------------- binary64 arithmetic
\* Python floats are IEEE 754 binary64 numbers.  A natural number of any size
\* is the sequence of its binary digits, lowest first, without leading zeros;
\* a finite float is (-1)^neg * mant * 2^exp with mant such a number, odd or
\* zero, of at most 53 digits.  Every operation computes the exact result and
\* rounds it to nearest, ties to even.  Exponents stay far from the
\* overflow and underflow ranges, which are not modelled.
\* the binary digits of a binary64 significand
Precision == 53

Zeros(k) == [i \in 1..k |-> 0]
Digit(b, i) == IF i <= Len(b) THEN b[i] ELSE 0

\* b without its leading zeros
Trim(b) ==
    LET ones == {i \in DOMAIN b : b[i] = 1}
    IN  IF ones = {} THEN <<>>
        ELSE SubSeq(b, 1, CHOOSE i \in ones : \A j \in ones : j <= i)

RECURSIVE BigFromInt(_)
BigFromInt(n) == IF n = 0 THEN <<>> ELSE <<n % 2>> \o BigFromInt(n \div 2)

\* digits lo..hi of a + b + carry and the carry out of them, by halves
RECURSIVE AddRange(_, _, _, _, _)
AddRange(a, b, lo, hi, carry) ==
    IF lo = hi
    THEN LET s == Digit(a, lo) + Digit(b, lo) + carry
         IN  [digits |-> <<s % 2>>, carry |-> s \div 2]
    ELSE LET mid == (lo + hi) \div 2
             low == AddRange(a, b, lo, mid, carry)
             high == AddRange(a, b, mid + 1, hi, low.carry)
         IN  [digits |-> low.digits \o high.digits, carry |-> high.carry]

BigAdd(a, b) ==
    LET n == IF Len(a) < Len(b) THEN Len(b) ELSE Len(a)
    IN  IF n = 0 THEN <<>>
        ELSE LET s == AddRange(a, b, 1, n, 0)
             IN  IF s.carry = 1 THEN Append(s.digits, 1) ELSE s.digits

\* digits lo..hi of a - b - borrow and the borrow out of them, by halves
RECURSIVE SubRange(_, _, _, _, _)
SubRange(a, b, lo, hi, borrow) ==
    IF lo = hi
    THEN LET d == Digit(a, lo) - Digit(b, lo) - borrow
         IN  [digits |-> <<(d + 2) % 2>>, borrow |-> IF d < 0 THEN 1 ELSE 0]
    ELSE LET mid == (lo + hi) \div 2
             low == SubRange(a, b, lo, mid, borrow)
             high == SubRange(a, b, mid + 1, hi, low.borrow)
         IN  [digits |-> low.digits \o high.digits, borrow |-> high.borrow]

\* a - b for a >= b
BigSub(a, b) == IF a = <<>> THEN <<>> ELSE Trim(SubRange(a, b, 1, Len(a), 0).digits)

BigLess(a, b) ==
    \/ Len(a) < Len(b)
    \/ /\ Len(a) = Len(b)
       /\ \E i \in DOMAIN a : /\ a[i] < b[i]
                              /\ \A j \in DOMAIN a : j > i => a[j] = b[j]

ShiftLeft(a, k) == IF a = <<>> THEN <<>> ELSE Zeros(k) \o a

\* a times the digits lo..hi of b, by halves
RECURSIVE MulRange(_, _, _, _)
MulRange(a, b, lo, hi) ==
    IF lo = hi
    THEN IF b[lo] = 1 THEN ShiftLeft(a, lo - 1) ELSE <<>>
    ELSE LET mid == (lo + hi) \div 2
         IN  BigAdd(MulRange(a, b, lo, mid), MulRange(a, b, mid + 1, hi))

BigMul(a, b) == IF a = <<>> \/ b = <<>> THEN <<>> ELSE MulRange(a, b, 1, Len(b))

Reverse(b) == [i \in 1..Len(b) |-> b[Len(b) + 1 - i]]

\* long division of a by b > 0 over the digits hi down to lo of a, with the
\* remainder r of the digits above: the quotient digits, highest first, and
\* the remainder
RECURSIVE DivRange(_, _, _, _, _)
DivRange(a, lo, hi, r, b) ==
    IF lo = hi
    THEN LET cur == Trim(<<a[lo]>> \o r)
         IN  IF BigLess(cur, b) THEN [q |-> <<0>>, r |-> cur]
             ELSE [q |-> <<1>>, r |-> BigSub(cur, b)]
    ELSE LET mid == (lo + hi) \div 2
             high == DivRange(a, mid + 1, hi, r, b)
             low == DivRange(a, lo, mid, high.r, b)
         IN  [q |-> high.q \o low.q, r |-> low.r]

\* the leading Len(b) - 1 digits of a are below b: the division starts after
BigDivMod(a, b) ==
    IF Len(a) < Len(b) THEN [q |-> <<>>, r |-> a]
    ELSE LET first == Len(a) - Len(b) + 1
             d == DivRange(a, 1, first, SubSeq(a, first + 1, Len(a)), b)
         IN  [q |-> Trim(Reverse(d.q)), r |-> d.r]

\* the digit-by-digit square root over the pairs of digits hi down to lo: res
\* is the root of the pairs above and n what is left of the number; with
\* nothing left the remaining digits of the root are zeros
RECURSIVE SqrtRange(_, _, _, _)
SqrtRange(n, res, lo, hi) ==
    IF lo = hi
    THEN LET trial == ShiftLeft(BigAdd(ShiftLeft(res, 2), <<1>>), 2 * lo)
         IN  IF BigLess(n, trial) THEN [n |-> n, res |-> ShiftLeft(res, 1)]
             ELSE [n |-> BigSub(n, trial), res |-> BigAdd(ShiftLeft(res, 1), <<1>>)]
    ELSE LET mid == (lo + hi) \div 2
             high == SqrtRange(n, res, mid + 1, hi)
         IN  IF high.n = <<>>
             THEN [n |-> <<>>, res |-> ShiftLeft(high.res, mid - lo + 1)]
             ELSE SqrtRange(high.n, high.res, lo, mid)

\* the integer square root of n and what is left of n
BigSqrt(n) ==
    LET s == SqrtRange(n, <<>>, 0, Len(n) \div 2) IN [root |-> s.res, r |-> s.n]

Float(neg, mant, exp) == [neg |-> neg, mant |-> mant, exp |-> exp]
FloatZero == Float(FALSE, <<>>, 0)

\* the canonical form: the low zeros of the significand go to the exponent
Canon(neg, mant, exp) ==
    IF mant = <<>> THEN FloatZero
    ELSE LET low == CHOOSE i \in DOMAIN mant :
                        mant[i] = 1 /\ \A j \in 1..(i - 1) : mant[j] = 0
         IN  Float(neg, SubSeq(mant, low, Len(mant)), exp + low - 1)

\* the exact value mant * 2^exp, plus a nonzero amount below its last digit if
\* sticky, rounded to Precision digits, to nearest, ties to even
RoundToFloat(neg, mant, exp, sticky) ==
    IF Len(mant) <= Precision THEN Canon(neg, mant, exp)
    ELSE LET cut == Len(mant) - Precision
             kept == SubSeq(mant, cut + 1, Len(mant))
             half == mant[cut] = 1
             below == sticky \/ \E i \in 1..(cut - 1) : mant[i] = 1
             up == half /\ (below \/ kept[1] = 1)
         IN  Canon(neg, IF up THEN BigAdd(kept, <<1>>) ELSE kept, exp + cut)

\* a + b
FloatAdd(a, b) ==
    LET e == IF a.exp < b.exp THEN a.exp ELSE b.exp
        x == ShiftLeft(a.mant, a.exp - e)
        y == ShiftLeft(b.mant, b.exp - e)
    IN  IF a.neg = b.neg THEN RoundToFloat(a.neg, BigAdd(x, y), e, FALSE)
        ELSE IF BigLess(x, y) THEN RoundToFloat(b.neg, BigSub(y, x), e, FALSE)
        ELSE RoundToFloat(a.neg, BigSub(x, y), e, FALSE)

FloatNeg(a) == IF a.mant = <<>> THEN a ELSE Float(~a.neg, a.mant, a.exp)
\* a - b
FloatSub(a, b) == FloatAdd(a, FloatNeg(b))
\* abs(a)
FloatAbs(a) == Float(FALSE, a.mant, a.exp)
\* a * b
FloatMul(a, b) ==
    RoundToFloat(a.neg # b.neg, BigMul(a.mant, b.mant), a.exp + b.exp, FALSE)

\* a / b for b # 0: the quotient of the significands with enough more digits
\* to have more than Precision + 1 of them, the remainder as the sticky part
FloatDiv(a, b) ==
    LET extra == Precision + 2 + Len(b.mant) - Len(a.mant)
        d == BigDivMod(ShiftLeft(a.mant, extra), b.mant)
    IN  RoundToFloat(a.neg # b.neg, d.q, a.exp - extra - b.exp, d.r # <<>>)

\* a ** 0.5 for a >= 0: the square root of the significand with an even
\* exponent and enough more digits for a root of more than Precision + 1
FloatSqrt(a) ==
    LET more == 2 * Precision + 2 - Len(a.mant)
        extra == more + ((a.exp - more) % 2)
        s == BigSqrt(ShiftLeft(a.mant, extra))
    IN  RoundToFloat(FALSE, s.root, (a.exp - extra) \div 2, s.r # <<>>)

\* a > b
FloatGreater(a, b) ==
    LET d == FloatSub(a, b) IN d.mant # <<>> /\ ~d.neg

\* float(n) of a small integer n >= 0
FloatOfInt(n) == Canon(FALSE, BigFromInt(n), 0)

\* the sum of a sequence of floats as sum() of CPython up to 3.11 computes
\* it: one rounded addition per element, from 0
RECURSIVE PlainSum(_)
PlainSum(values) ==
    IF values = <<>> THEN FloatZero
    ELSE FloatAdd(PlainSum(SubSeq(values, 1, Len(values) - 1)), values[Len(values)])

\* ------------------------------------------------------------------ Init
\* the task of start_monitoring is not inside a cycle: not created, asleep
\* between two cycles (l.166), or finished
NoStep == [at |-> "sleep", handler |-> "none", local |-> None, ref |-> None,
           t |-> 0, k |-> 0]

\* SyncMonitor.__init__ with the threshold read from a configuration in
\* thresholds
InitMonitorWith(thresholds) ==
    /\ desync_threshold \in thresholds
    /\ consensus_rpc_url \in BOOLEAN
    /\ is_running = FALSE
    /\ database = "open"
    /\ step = NoStep
    /\ shutdown = FALSE
    /\ current_desync = NoEvent
    /\ active_desyncs = <<>>
    /\ current_sync_status = None
    /\ last_metrics_collection = None
    /\ events = <<>>
    /\ desync_callbacks = <<>>
    /\ recovery_callbacks = <<>>
    /\ now = StartTime
    /\ cycles = 0
    /\ store_log = <<>>
    /\ desync_emitted = <<>>
    /\ recovery_emitted = <<>>
    /\ last = NoCycle
    /\ prev_above = FALSE
    /\ up_crossings = 0
    /\ down_crossings = 0
    /\ run_event = NoEvent
    /\ run_created = 0
    /\ run_id = None
    /\ scen = 0

InitMonitor == InitMonitorWith(Thresholds)

\* nothing has been returned yet
NoReturn == [op |-> "none", client |-> 0, id |-> 0]

\* IPCClient.__init__, for every client: the transport is chosen from the path
\* given and the socket found
InitClient ==
    /\ ipc_path \in [Clients -> BOOLEAN]
    /\ socket_exists \in BOOLEAN
    /\ _use_http = [c \in Clients |-> ~ipc_path[c] \/ ~socket_exists]
    /\ _request_id = [c \in Clients |-> 0]
    /\ pending = {}
    /\ requests = <<>>
    /\ returned = NoReturn

\* clients built without a socket path, never called
IdleClient ==
    /\ InitClient
    /\ ipc_path = [c \in Clients |-> FALSE]
    /\ socket_exists = FALSE

\* models.SyncStatus(is_syncing, current_block, highest_block, starting_block)
SyncStatusFrom(is_syncing, current_block, highest_block, starting_block) ==
    [is_syncing |-> is_syncing, current_block |-> current_block,
     highest_block |-> highest_block, starting_block |-> starting_block]

\* models.SyncStatus(is_syncing, current_block, highest_block): starting_block
\* defaults to None
SyncStatus(is_syncing, current_block, highest_block) ==
    SyncStatusFrom(is_syncing, current_block, highest_block, None)

\* the argument ipc_path of _probe_node: None, or a string as its characters
NoPath == [none |-> TRUE, chars |-> <<>>]
PathOf(chars) == [none |-> FALSE, chars |-> chars]

\* no node has been probed
NoProbe == [chain_id |-> 0, ipc_path |-> NoPath, networks |-> {},
            reachable |-> FALSE, network |-> "none", node_info |-> "none"]

InitModel ==
    /\ probe = NoProbe
    /\ sync_status \in {SyncStatusFrom(s, c, h, b) :
                            s \in BOOLEAN, c \in StatusHeights,
                            h \in StatusHeights, b \in StartingBlocks}
    /\ observed = <<>>

IdleModel ==
    /\ InitModel
    /\ sync_status = SyncStatus(FALSE, 0, 0)

\* MonitoringStats(): the counters the collector writes
MonitoringStats ==
    [metrics_collected |-> 0, anomalies_detected |-> 0, prometheus_requests |-> 0,
     prometheus_request_failures |-> 0, database_writes |-> 0,
     database_write_failures |-> 0]

NoPoll == [outcome |-> "none", at |-> 0, baselines |-> [name \in {} |-> NoEvent],
           tests |-> <<>>, raised |-> {}]

\* MetricsCollector.__init__
InitCollector ==
    /\ is_collecting = FALSE
    /\ stats = MonitoringStats
    /\ collection_interval \in CollectionIntervals
    /\ anomaly_detection_enabled \in DetectionEnabled
    /\ baseline_window \in BaselineWindows
    /\ anomaly_threshold_std \in AnomalyThresholds
    /\ metric_baselines = [name \in {} |-> NoEvent]
    /\ recent_metrics = <<>>
    /\ anomaly_callbacks = <<>>
    /\ anomaly_log = <<>>
    /\ anomaly_notified = <<>>
    /\ collected = <<>>
    /\ polls = 0
    /\ poll = NoPoll

\* the baseline of a metric nothing was collected of
NoFloatBaseline == [mean |-> FloatZero, std |-> FloatZero, sample_count |-> 0]
NoStream == [value |-> Ratio(0, 1), count |-> 0, next |-> Ratio(0, 1),
             summation |-> "plain"]

IdleStream ==
    /\ stream = NoStream
    /\ float_baseline = NoFloatBaseline
    /\ float_verdict = "none"

DefaultCollector ==
    /\ InitCollector
    /\ collection_interval = 20
    /\ baseline_window = 60
    /\ anomaly_threshold_std = Ratio(5, 2)

IdleCollector ==
    /\ DefaultCollector
    /\ IdleStream

Init ==
    /\ InitMonitor
    /\ sev_in = <<0, 0>>
    /\ sev_out = <<>>
    /\ IdleClient
    /\ IdleModel
    /\ IdleCollector

\* --------------------------------------------------------------- actions
\* callbacks are named by their position in the registry
add_desync_callback ==
    /\ Len(desync_callbacks) < MaxCallbacks
    /\ desync_callbacks' = Append(desync_callbacks, Len(desync_callbacks) + 1)
    /\ UNCHANGED <<config_vars, recovery_callbacks, monitor_vars, status_vars,
                   call_vars, crossing_vars, other_vars, is_running, now, cycles,
                   last, scen>>

add_recovery_callback ==
    /\ Len(recovery_callbacks) < MaxCallbacks
    /\ recovery_callbacks' = Append(recovery_callbacks, Len(recovery_callbacks) + 1)
    /\ UNCHANGED <<config_vars, desync_callbacks, monitor_vars, status_vars,
                   call_vars, crossing_vars, other_vars, is_running, now, cycles,
                   last, scen>>

start_monitoring ==
    /\ ~is_running
    /\ is_running' = TRUE
    /\ UNCHANGED <<config_vars, registry_vars, monitor_vars, status_vars,
                   call_vars, crossing_vars, other_vars, now, cycles, last, scen>>

\* the close of the database at the end of stop_monitoring is left to
\* database_fault: a monitor that is started again has been initialized again
stop_monitoring ==
    /\ is_running
    /\ is_running' = FALSE
    /\ UNCHANGED <<config_vars, registry_vars, monitor_vars, status_vars,
                   call_vars, crossing_vars, other_vars, now, cycles, last, scen>>

\* mutant: one try/except around the whole loop, so the first exception ends it
NotifyLoopAbort(callbacks, raisers) ==
    LET first == IF raisers = {} THEN Len(callbacks)
                 ELSE CHOOSE i \in raisers : \A j \in raisers : i <= j
    IN [calls |-> SubSeq(callbacks, 1, first), raised |-> raisers,
        propagated |-> raisers # {}]

\* The for loop over a registry.  Every callback is awaited inside its own
\* try/except Exception, so an exception of one callback (raisers: the
\* positions that raise) ends neither the loop nor the handler.
\* calls: the callbacks awaited, in order; propagated: an exception left the loop.
NotifyLoop(callbacks, raisers) ==
    [calls |-> callbacks, raised |-> raisers, propagated |-> FALSE]

\* mutant: the two heights are passed in each other's place
NewDesyncEventSwapped(t, d, local, consensus_block, blocks_behind, peers) ==
    [event_id |-> IntSeconds(t),
     detected_at |-> t + d,
     local_block |-> consensus_block,
     network_block |-> local,
     blocks_behind |-> blocks_behind,
     peer_count |-> peers,
     recovered_at |-> None,
     recovery_duration |-> None,
     severity |-> _calculate_desync_severity(blocks_behind)]

\* lines 273-281: the DesyncEvent of a detection.  t: time.time() of the event
\* id; d: ticks until the second read, for detected_at.
NewDesyncEvent(t, d, local, consensus_block, blocks_behind, peers) ==
    [event_id |-> IntSeconds(t),
     detected_at |-> t + d,
     local_block |-> local,
     network_block |-> consensus_block,
     blocks_behind |-> blocks_behind,
     peer_count |-> peers,
     recovered_at |-> None,
     recovery_duration |-> None,
     severity |-> _calculate_desync_severity(blocks_behind)]

\* mutant: the recovery time is not written to the event
SealedWithoutTimestamp(e, recovery_time) ==
    [e EXCEPT !.recovery_duration = recovery_time - e.detected_at]

\* lines 309-311: the event with its recovery time and duration
Sealed(e, recovery_time) ==
    [e EXCEPT !.recovered_at = recovery_time,
              !.recovery_duration = recovery_time - e.detected_at]

\* mutant: the reference height of the event is not refreshed
RefreshedWithoutReference(e, local, consensus_block, blocks_behind) ==
    [e EXCEPT !.blocks_behind = blocks_behind,
              !.local_block = local]

\* mutant: the severity is computed again from the new distance
RefreshedWithSeverity(e, local, consensus_block, blocks_behind) ==
    [e EXCEPT !.blocks_behind = blocks_behind,
              !.network_block = consensus_block,
              !.local_block = local,
              !.severity = _calculate_desync_severity(blocks_behind)]

\* mutant: the local height of the event is not refreshed
RefreshedWithoutLocal(e, local, consensus_block, blocks_behind) ==
    [e EXCEPT !.blocks_behind = blocks_behind,
              !.network_block = consensus_block]

\* lines 224-226: the fields a same-incident cycle overwrites
Refreshed(e, local, consensus_block, blocks_behind) ==
    [e EXCEPT !.blocks_behind = blocks_behind,
              !.network_block = consensus_block,
              !.local_block = local]

\* database.store_desync_event: its own try/except logs a failed execute and
\* rolls back; on a closed connection the rollback raises as well
store_desync_event(connection) ==
    IF connection = "open" THEN "stored"
    ELSE IF connection = "failing" THEN "failed"
    ELSE "raises"

\* the exception of the store leaves the handler before its loop
NotNotified == [calls |-> <<>>, raised |-> {}, propagated |-> TRUE]

_handle_desync_detection(t, local, resp, consensus_block, blocks_behind) ==
    \E peers \in PeerCounts, d \in DelayTicks,
       raisers \in SUBSET (1..Len(desync_callbacks)) :
       LET event == NewDesyncEvent(t, d, local, consensus_block, blocks_behind, peers)
           ref == Len(events) + 1
           event_data == _create_detailed_event_data(event)
           stored == store_desync_event(database)
           loop == IF stored = "raises" THEN NotNotified
                   ELSE NotifyLoop(desync_callbacks, raisers)
       IN /\ stored = "raises" => raisers = {}
          /\ events' = Append(events, event)
          /\ current_desync' = ref
          /\ active_desyncs' = Append(active_desyncs, ref)
          /\ store_log' = Append(store_log, event_data)
          /\ desync_emitted' = IF stored = "raises" THEN desync_emitted
                               ELSE Append(desync_emitted, ref)
          /\ UNCHANGED recovery_emitted
          /\ now' = t + d
          /\ last' = [kind |-> "detect", local |-> local, resp |-> resp,
                      ref |-> consensus_block, bb |-> blocks_behind,
                      peers |-> peers, stored |-> <<event_data>>,
                      dcalls |-> loop.calls, rcalls |-> <<>>,
                      raised |-> loop.raised, persist |-> stored]

_handle_desync_recovery(t, local, resp, consensus_block, blocks_behind) ==
    \E raisers \in SUBSET (1..Len(recovery_callbacks)) :
       LET sealed == Sealed(events[current_desync], t)
           event_data == _create_detailed_event_data(sealed)
           stored == store_desync_event(database)
           loop == IF stored = "raises" THEN NotNotified
                   ELSE NotifyLoop(recovery_callbacks, raisers)
       IN /\ current_desync # NoEvent
          /\ stored = "raises" => raisers = {}
          /\ events' = [events EXCEPT ![current_desync] = sealed]
          /\ store_log' = Append(store_log, event_data)
          /\ recovery_emitted' = IF stored = "raises" THEN recovery_emitted
                                 ELSE Append(recovery_emitted, current_desync)
          /\ UNCHANGED desync_emitted
          \* lines 329-333 run when no exception left the loop
          /\ IF loop.propagated
             THEN UNCHANGED <<active_desyncs, current_desync>>
             ELSE /\ active_desyncs' = Remove(active_desyncs, current_desync)
                  /\ current_desync' = NoEvent
          /\ now' = t
          /\ last' = [kind |-> "recover", local |-> local, resp |-> resp,
                      ref |-> consensus_block, bb |-> blocks_behind,
                      peers |-> None, stored |-> <<event_data>>,
                      dcalls |-> <<>>, rcalls |-> loop.calls,
                      raised |-> loop.raised, persist |-> stored]

\* lines 222-226: the active event is refreshed in place
UpdateExisting(t, local, resp, consensus_block, blocks_behind) ==
    /\ events' = [events EXCEPT ![current_desync] =
                     Refreshed(@, local, consensus_block, blocks_behind)]
    /\ now' = t
    /\ last' = [NoCycle EXCEPT !.kind = "update", !.local = local, !.resp = resp,
                               !.ref = consensus_block, !.bb = blocks_behind]
    /\ UNCHANGED <<current_desync, active_desyncs, call_vars>>

\* a cycle that reaches no handler
NoTransition(t, kind, local, resp, consensus_block, blocks_behind) ==
    /\ now' = t
    /\ last' = [NoCycle EXCEPT !.kind = kind, !.local = local, !.resp = resp,
                               !.ref = consensus_block, !.bb = blocks_behind]
    /\ UNCHANGED <<monitor_vars, call_vars>>

\* mutant: the threshold test is strict
CheckForDesyncStrict(t, local, resp) ==
    LET consensus_block == _get_consensus_block_height(resp)
        blocks_behind == consensus_block - local
    IN IF consensus_block = None
       THEN NoTransition(t, "no_ref", local, resp, None, 0)
       ELSE IF blocks_behind > desync_threshold
       THEN IF current_desync = NoEvent
            THEN _handle_desync_detection(t, local, resp, consensus_block, blocks_behind)
            ELSE UpdateExisting(t, local, resp, consensus_block, blocks_behind)
       ELSE IF current_desync # NoEvent
            THEN _handle_desync_recovery(t, local, resp, consensus_block, blocks_behind)
            ELSE NoTransition(t, "noop", local, resp, consensus_block, blocks_behind)

\* mutant: an incident is opened in every cycle at or above the threshold
CheckForDesyncAlwaysNew(t, local, resp) ==
    LET consensus_block == _get_consensus_block_height(resp)
        blocks_behind == consensus_block - local
    IN IF consensus_block = None
       THEN NoTransition(t, "no_ref", local, resp, None, 0)
       ELSE IF blocks_behind >= desync_threshold
       THEN _handle_desync_detection(t, local, resp, consensus_block, blocks_behind)
       ELSE IF current_desync # NoEvent
            THEN _handle_desync_recovery(t, local, resp, consensus_block, blocks_behind)
            ELSE NoTransition(t, "noop", local, resp, consensus_block, blocks_behind)

_check_for_desync(t, local, resp) ==
    LET consensus_block == _get_consensus_block_height(resp)
        blocks_behind == consensus_block - local
    IN IF consensus_block = None
       THEN NoTransition(t, "no_ref", local, resp, None, 0)
       ELSE IF blocks_behind >= desync_threshold
       THEN IF current_desync = NoEvent
            THEN _handle_desync_detection(t, local, resp, consensus_block, blocks_behind)
            ELSE UpdateExisting(t, local, resp, consensus_block, blocks_behind)
       ELSE IF current_desync # NoEvent
            THEN _handle_desync_recovery(t, local, resp, consensus_block, blocks_behind)
            ELSE NoTransition(t, "noop", local, resp, consensus_block, blocks_behind)

ScenarioLocal == <<10, 10, 15, 15, 2>>
ScenarioRef == <<1, 4>>
ScenarioThreshold == 3
\* the samples seen so far are not a prefix of the scenario
Diverged == Len(ScenarioLocal) + 1

\* the reference height a response carries, read off the wire
RawHeight(resp) ==
    IF consensus_rpc_url /\ resp.kind = "ok" THEN HexToInt(resp.result) ELSE None

\* history of the successful cycles: crossings, the current run, the scenario
Observe(local, resp) ==
    LET success == local \notin {None, Raises} /\ RawHeight(resp) # None
        above == RawHeight(resp) - local >= desync_threshold
    IN IF ~success
       THEN /\ scen' = Diverged
            /\ UNCHANGED crossing_vars
       ELSE /\ prev_above' = above
            /\ up_crossings' = up_crossings + (IF above /\ ~prev_above THEN 1 ELSE 0)
            /\ down_crossings' = down_crossings + (IF ~above /\ prev_above THEN 1 ELSE 0)
            /\ run_event' = IF above /\ ~prev_above THEN current_desync'
                            ELSE IF above THEN run_event ELSE NoEvent
            /\ run_created' = IF above /\ ~prev_above THEN Len(events)
                              ELSE run_created
            /\ run_id' = IF above /\ ~prev_above
                          THEN IF current_desync' = NoEvent THEN None
                               ELSE events'[current_desync'].event_id
                          ELSE IF above THEN run_id ELSE None
            /\ scen' = IF /\ scen # Diverged
                          /\ scen < Len(ScenarioLocal)
                          /\ desync_threshold = ScenarioThreshold
                          /\ local = ScenarioLocal[scen + 1]
                          /\ resp.result = ScenarioRef
                       THEN scen + 1 ELSE Diverged

\* outcomes of ipc_client.get_sync_status(): a status, None, or an exception
LocalOutcomes == LocalBlocks \cup {None, Raises}

\* One iteration of the loop of start_monitoring: the sleep, then
\* _check_sync_status with the local outcome and the consensus response drawn
\* from the given sets.
\* mutant: _check_sync_status without its try/except
EscapedUncaught(local) == local = Raises

\* lines 184 and 199: the body of _check_sync_status is inside try/except
\* Exception, so no exception of a cycle reaches the loop of start_monitoring
Escaped(local) == FALSE

Cycle(locals, resps) ==
    /\ is_running
    /\ \E dt \in SleepTicks, local \in locals :
          LET t == now + dt
          IN /\ IF local \in {None, Raises}
                THEN /\ NoTransition(t, "no_local", None, NoResponse, None, 0)
                     /\ Observe(local, NoResponse)
                     /\ UNCHANGED status_vars
                ELSE \E resp \in resps :
                     /\ current_sync_status' = local
                     /\ _check_for_desync(t, local, resp)
                     /\ last_metrics_collection' = now'
                     /\ Observe(local, resp)
             \* lines 168-172: an exception in the loop ends it
             /\ is_running' = ~Escaped(local)
    /\ cycles' = cycles + 1
    /\ UNCHANGED <<config_vars, registry_vars, other_vars>>

_check_sync_status ==
    /\ cycles < MaxCycles
    /\ Cycle(LocalOutcomes, ConsensusResponses)

Next ==
    \/ add_desync_callback
    \/ add_recovery_callback
    \/ start_monitoring
    \/ stop_monitoring
    \/ _check_sync_status

Spec == Init /\ [][Next]_vars

\* ------------------------------------------- the scenario of the spec
\* threshold 3, local heights 10, 10, 15, 15, 2 against a constant reference 20:
\* the same monitor, polled with exactly these samples.
ScenarioCycle ==
    /\ scen \in 0..(Len(ScenarioLocal) - 1)
    /\ Cycle({ScenarioLocal[scen + 1]}, {[kind |-> "ok", result |-> ScenarioRef]})

NextScenario ==
    \/ add_desync_callback
    \/ add_recovery_callback
    \/ start_monitoring
    \/ stop_monitoring
    \/ _check_sync_status
    \/ ScenarioCycle

SpecScenario == Init /\ [][NextScenario]_vars

\* ------------------------------------------- the severity function alone
InitSeverity ==
    /\ InitMonitor
    /\ sev_in \in SeverityInputs \X SeverityInputs
    /\ sev_out = <<>>
    /\ IdleClient
    /\ IdleModel
    /\ IdleCollector

CalculateSeverity ==
    /\ sev_out = <<>>
    /\ sev_out' = <<_calculate_desync_severity(sev_in[1]),
                    _calculate_desync_severity(sev_in[2])>>
    /\ UNCHANGED <<config_vars, registry_vars, monitor_vars, status_vars,
                   call_vars, crossing_vars, sev_in, client_vars, model_vars,
                   collector_vars, is_running, now, cycles,
                   last, scen>>

NextSeverity == CalculateSeverity

SpecSeverity == InitSeverity /\ [][NextSeverity]_vars

\* ------------------------------- thresholds of any sign, a node ahead
\* desync_threshold_blocks is read without validation: zero and negative values
AnyThresholds == {-2, 0, 3}
\* local heights below and above the reference height 20
LocalBlocksAround == {17, 20, 25}

ThresholdCycle ==
    /\ cycles < MaxCycles
    /\ Cycle(LocalBlocksAround, {[kind |-> "ok", result |-> ScenarioRef]})

NextThreshold ==
    \/ add_desync_callback
    \/ add_recovery_callback
    \/ start_monitoring
    \/ stop_monitoring
    \/ ThresholdCycle

InitThreshold ==
    /\ InitMonitorWith(AnyThresholds)
    /\ sev_in = <<0, 0>>
    /\ sev_out = <<>>
    /\ IdleClient
    /\ IdleModel
    /\ IdleCollector

SpecThreshold == InitThreshold /\ [][NextThreshold]_vars

\* ------------------------------------------------- the IPC client
\* Python None where a string is expected
NoneStr == "None"

\* JSON values of a "result": null, false, a string "0x..." (its digits), or
\* the object of eth_syncing with its two heights (digits, or Missing)
Missing == <<-1>>
Null == [kind |-> "null", digits |-> <<>>, currentBlock |-> Missing,
         highestBlock |-> Missing]
False == [Null EXCEPT !.kind = "false"]
HexString(digits) == [Null EXCEPT !.kind = "str", !.digits = digits]
Dict(currentBlock, highestBlock) ==
    [Null EXCEPT !.kind = "dict", !.currentBlock = currentBlock,
                 !.highestBlock = highestBlock]

ResultValues ==
    {Null, False, HexString(<<1, 4>>), HexString(BadHex),
     Dict(<<1, 0>>, <<1, 4>>), Dict(Missing, <<1, 4>>), Dict(<<1, 0>>, BadHex)}

\* the "message" of a JSON-RPC error object
RpcMessage == "method not found"

\* What the node does with one request.  kind: the connection is refused, the
\* exchange times out, HTTP answers with a status other than 200, or a body
\* arrives ("ok": HTTP 200, or a line read from the socket).  body: an object
\* with "result", with "error" (with or without "message"), with neither, a
\* text that is not JSON, or nothing at all.
NoBody == [kind : {"refused", "timeout", "status"}, body : {"none"}, value : {Null}]
Bodies ==
    [kind : {"ok"}, body : {"error", "error_nomsg", "neither", "invalid", "empty"},
     value : {Null}]
    \cup [kind : {"ok"}, body : {"result"}, value : ResultValues]
Outcomes == NoBody \cup Bodies
\* a call that found no socket exchanges nothing
NoExchange == [kind |-> "none", body |-> "none", value |-> Null]

\* an exception leaving an expression: the value of the expression is this
Exception(type) ==
    [raised |-> TRUE, success |-> FALSE, data |-> Null, error |-> type,
     method |-> NoneStr]

\* The constructor the dataclass generates: success and data have no default,
\* so a call without one of them raises TypeError.
IPCResponse(kw) ==
    IF {"success", "data"} \subseteq DOMAIN kw
    THEN [raised |-> FALSE, success |-> kw.success, data |-> kw.data,
          error |-> IF "error" \in DOMAIN kw THEN kw.error ELSE NoneStr,
          method |-> IF "method" \in DOMAIN kw THEN kw.method ELSE NoneStr]
    ELSE Exception("TypeError")

\* the coroutine _call_http, from the outcome of its request to its result
_call_http(outcome, method) ==
    LET body ==
            CASE outcome.kind = "refused" -> Exception("ClientError")
              [] outcome.kind = "timeout" -> Exception("TimeoutError")
              [] outcome.kind = "status" ->
                    IPCResponse([success |-> FALSE, error |-> "HTTP status",
                                 method |-> method])
              \* response.json() raises
              [] outcome.body \in {"invalid", "empty"} -> Exception("JSONDecodeError")
              [] outcome.body = "error" ->
                    IPCResponse([success |-> FALSE, error |-> RpcMessage,
                                 method |-> method])
              [] outcome.body = "error_nomsg" ->
                    IPCResponse([success |-> FALSE, error |-> "Unknown RPC error",
                                 method |-> method])
              \* response_data.get("result")
              [] OTHER ->
                    IPCResponse([success |-> TRUE, data |-> outcome.value,
                                 method |-> method])
    IN IF ~body.raised THEN body
       ELSE IF body.error = "TimeoutError"
       THEN IPCResponse([success |-> FALSE, error |-> "HTTP request timeout",
                         method |-> method])
       ELSE IPCResponse([success |-> FALSE, error |-> "HTTP request failed",
                         method |-> method])

\* the coroutine _call_ipc; exists: Path(self.ipc_path).exists() when it starts
_call_ipc(exists, outcome, method) ==
    LET body ==
            CASE ~exists ->
                    IPCResponse([success |-> FALSE, error |-> "IPC socket not found",
                                 method |-> method])
              [] outcome.kind = "refused" -> Exception("ConnectionRefusedError")
              [] outcome.kind = "timeout" -> Exception("TimeoutError")
              [] outcome.body = "empty" ->
                    IPCResponse([success |-> FALSE, error |-> "Empty response from node",
                                 method |-> method])
              [] outcome.body = "invalid" -> Exception("JSONDecodeError")
              [] outcome.body = "error" ->
                    IPCResponse([success |-> FALSE, error |-> RpcMessage,
                                 method |-> method])
              \* response['error']['message']
              [] outcome.body = "error_nomsg" -> Exception("KeyError")
              \* response.get('result')
              [] OTHER ->
                    IPCResponse([success |-> TRUE, data |-> outcome.value,
                                 method |-> method])
    IN IF ~body.raised THEN body
       ELSE IF body.error = "TimeoutError"
       THEN IPCResponse([success |-> FALSE, error |-> "Request timeout",
                         method |-> method])
       ELSE IF body.error = "JSONDecodeError"
       THEN IPCResponse([success |-> FALSE, error |-> "Invalid JSON response",
                         method |-> method])
       ELSE IPCResponse([success |-> FALSE, error |-> "IPC communication error",
                         method |-> method])

\* lines 71-83 of call_method: the dispatch on _use_http inside try/except
Dispatch(use_http, exists, outcome, method) ==
    LET result == IF use_http THEN _call_http(outcome, method)
                  ELSE _call_ipc(exists, outcome, method)
    IN IF ~result.raised THEN result
       ELSE IPCResponse([success |-> FALSE, error |-> result.error,
                         method |-> method])

\* methods of direct calls of call_method
Methods == {"net_peerCount"}

\* mutant: the counter stops at 1
NextIdStuck(request_id) == IF request_id = 0 THEN 1 ELSE request_id

\* line 62: self._request_id += 1
NextId(request_id) == request_id + 1

\* lines 64-69: the request, and the transport line 72 hands it to
Request(c, method) ==
    [client |-> c, id |-> NextId(_request_id[c]), method |-> method,
     http |-> _use_http[c]]

\* Lines 59-75 of call_method up to the first await: the counter, the request,
\* the dispatch, and in _call_ipc the test for the socket.  op: the operation
\* that made the call; first, syncing: the id and the data of the eth_syncing
\* call when get_sync_status makes its second call; others: the other calls
\* in flight.
Begin(c, op, method, first, syncing, others) ==
    LET request == Request(c, method)
    IN /\ _request_id' = [_request_id EXCEPT ![c] = request.id]
       /\ requests' = Append(requests, request)
       /\ pending' = others
                        \cup {[client |-> c, id |-> request.id, method |-> method,
                               http |-> request.http,
                               exists |-> ~request.http /\ socket_exists,
                               op |-> op, first |-> first, syncing |-> syncing]}

\* requests one client can still make: a get_sync_status that waits for
\* eth_syncing has its second call ahead
Reserved(c) ==
    _request_id[c] + Cardinality({p \in pending : /\ p.client = c
                                                   /\ p.op = "get_sync_status"
                                                   /\ p.method = "eth_syncing"})

call_method(c, method) ==
    /\ Reserved(c) + 1 <= MaxRequests
    /\ Begin(c, "call_method", method, 0, Null, pending)
    /\ UNCHANGED <<returned, client_frame>>

\* get_latest_block and get_sync_status up to their first await
get_latest_block(c) ==
    /\ Reserved(c) + 1 <= MaxRequests
    /\ Begin(c, "get_latest_block", "eth_blockNumber", 0, Null, pending)
    /\ UNCHANGED <<returned, client_frame>>

get_sync_status(c) ==
    /\ Reserved(c) + 2 <= MaxRequests
    /\ Begin(c, "get_sync_status", "eth_syncing", 0, Null, pending)
    /\ UNCHANGED <<returned, client_frame>>

\* the socket file is created or removed while the clients live
SocketAppears ==
    /\ ~socket_exists
    /\ socket_exists' = TRUE
    /\ UNCHANGED <<sync_monitor_vars, sev_vars, model_vars, collector_vars,
                   ipc_path, _use_http,
                   _request_id, pending, requests, returned>>

SocketDisappears ==
    /\ socket_exists
    /\ socket_exists' = FALSE
    /\ UNCHANGED <<sync_monitor_vars, sev_vars, model_vars, collector_vars,
                   ipc_path, _use_http,
                   _request_id, pending, requests, returned>>

\* a JSON number
Number(n) == [Null EXCEPT !.kind = "int", !.digits = <<n>>]

\* SyncStatus._hex_to_int of the class inside get_sync_status
_hex_to_int(value) ==
    IF value.kind = "str"
    THEN IF HexToInt(value.digits) = None THEN 0 ELSE HexToInt(value.digits)
    ELSE IF value.kind = "int" THEN value.digits[1]
    ELSE 0

\* what an operation returns besides a value: nothing, or an exception
NoStatus ==
    [kind |-> "none", is_syncing |-> FALSE, current_block |-> 0, highest_block |-> 0]
StatusRaised == [NoStatus EXCEPT !.kind = "raised"]

\* the SyncStatus class lines 246-263 define
MockSyncStatus(is_syncing, current_block, highest_block) ==
    [kind |-> "status", is_syncing |-> is_syncing,
     current_block |-> _hex_to_int(current_block),
     highest_block |-> _hex_to_int(highest_block)]

\* sync_data.get(key, 0)
Get(digits) == IF digits = Missing THEN Number(0) ELSE HexString(digits)

\* lines 265-275: the status built from the data of the two responses
BuildSyncStatus(syncing, block) ==
    IF syncing.kind = "false" THEN MockSyncStatus(FALSE, block, block)
    \* None and strings have no method get
    ELSE IF syncing.kind # "dict" THEN StatusRaised
    ELSE MockSyncStatus(TRUE, Get(syncing.currentBlock), Get(syncing.highestBlock))

\* lines 279-285 of get_latest_block: the height from the response
LatestBlock(response) ==
    IF response.raised THEN Raises
    ELSE IF response.success /\ response.data.kind \in {"str", "dict"}
    THEN IF response.data.kind = "str" /\ HexToInt(response.data.digits) # None
         THEN HexToInt(response.data.digits)
         ELSE 0
    ELSE 0

\* what the caller of an operation gets back
Return(p, outcome, result, value, status) ==
    [op |-> p.op, client |-> p.client, id |-> p.id, method |-> p.method,
     http |-> p.http, exists |-> p.exists, first |-> p.first,
     syncing |-> p.syncing, outcome |-> outcome, result |-> result, value |-> value, status |-> status]

\* what a node that behaves as in nodes can do with the request of a call in
\* flight
OutcomesOf(p, nodes) ==
    IF p.http THEN nodes
    ELSE IF ~p.exists THEN {NoExchange}
    ELSE {o \in nodes : o.kind # "status"}

\* A call in flight resumes with the outcome of its exchange; call_method
\* returns to the operation that made it, which runs to its next await or to
\* its end.
Respond(nodes) ==
    /\ UNCHANGED client_frame
    /\ \E p \in pending : \E outcome \in OutcomesOf(p, nodes) :
       LET result == Dispatch(p.http, p.exists, outcome, p.method)
           others == pending \ {p}
           Done(value, status) ==
               /\ returned' = Return(p, outcome, result, value, status)
               /\ pending' = others
               /\ UNCHANGED <<_request_id, requests>>
       IN CASE p.op = "call_method" -> Done(None, NoStatus)
            [] p.op = "get_latest_block" -> Done(LatestBlock(result), NoStatus)
            [] p.op = "get_sync_status" /\ result.raised -> Done(None, StatusRaised)
            [] p.op = "get_sync_status" /\ ~result.raised /\ ~result.success ->
                  Done(None, NoStatus)
            [] p.op = "get_sync_status" /\ ~result.raised /\ result.success
                  /\ p.method = "eth_syncing" ->
                  /\ Begin(p.client, p.op, "eth_blockNumber", p.id, result.data, others)
                  /\ UNCHANGED returned
            [] OTHER -> Done(None, BuildSyncStatus(p.syncing, result.data))

\* the client whose operations are exercised one by one
Callers == {1}

NextIPC ==
    \/ \E c \in Callers, method \in Methods : call_method(c, method)
    \/ \E c \in Callers : get_latest_block(c)
    \/ \E c \in Callers : get_sync_status(c)
    \/ Respond(Outcomes)
    \/ SocketAppears
    \/ SocketDisappears

InitIPC ==
    /\ InitMonitor
    /\ ~consensus_rpc_url
    /\ sev_in = <<0, 0>>
    /\ sev_out = <<>>
    /\ InitClient
    /\ IdleModel
    /\ IdleCollector

SpecIPC == InitIPC /\ [][NextIPC]_vars

\* a node that answers with a height or refuses the connection
SomeOutcomes ==
    {[kind |-> "ok", body |-> "result", value |-> HexString(<<1, 4>>)],
     [kind |-> "refused", body |-> "none", value |-> Null]}

\* two clients whose direct calls interleave at their awaits
NextIds ==
    \/ \E c \in Clients, method \in Methods : call_method(c, method)
    \/ Respond(SomeOutcomes)

\* one client that answers through HTTP and one that uses the socket if found
InitIds ==
    /\ InitIPC
    /\ ipc_path = [c \in Clients |-> c = 1]

SpecIds == InitIds /\ [][NextIds]_vars

\* ------------------------------------------- the SyncStatus record alone
\* mutant: the difference is not clamped
BlocksBehindUnclamped(status) == status.highest_block - status.current_block

\* SyncStatus.blocks_behind
SyncStatus_blocks_behind(status) ==
    IF status.highest_block - status.current_block > 0
    THEN status.highest_block - status.current_block
    ELSE 0

\* max(0.0, min(1.0, num / den)) for den > 0
Clamp01(num, den) ==
    IF num < 0 THEN Ratio(0, 1)
    ELSE IF num > den THEN Ratio(1, 1)
    ELSE Ratio(num, den)

\* SyncStatus.sync_progress
sync_progress(status) ==
    IF ~status.is_syncing \/ status.highest_block <= 0
    THEN IF ~status.is_syncing THEN Ratio(1, 1) ELSE Ratio(0, 1)
    ELSE IF status.starting_block = None
    THEN Ratio(status.current_block, status.highest_block)
    ELSE LET total_blocks == status.highest_block - status.starting_block
             completed_blocks == status.current_block - status.starting_block
         IN  IF total_blocks <= 0 THEN Ratio(1, 1)
             ELSE Clamp01(completed_blocks, total_blocks)

InitStatus ==
    /\ InitMonitor
    /\ sev_in = <<0, 0>>
    /\ sev_out = <<>>
    /\ IdleClient
    /\ InitModel
    /\ IdleCollector

\* the properties of the object are read
ReadStatus ==
    /\ observed = <<>>
    /\ observed' = [blocks_behind |-> SyncStatus_blocks_behind(sync_status),
                    sync_progress |-> sync_progress(sync_status)]
    /\ UNCHANGED <<sync_monitor_vars, sev_vars, client_vars, collector_vars,
                   sync_status, probe>>

NextStatus == ReadStatus

SpecStatus == InitStatus /\ [][NextStatus]_vars

\* ------------------------------------------------ the metrics collector
\* Sample values are integers, so that every sum is exact; a mean is the
\* quotient sum/count and the standard deviation is kept as its square, the
\* population variance (std = variance ** 0.5), both with exact arithmetic.
\* ticks of one minute
Minute == 60 * TicksPerSecond
\* the seconds of recent_metrics that _collect_and_analyze keeps
RetentionSeconds == 3600
\* the samples a baseline needs before a sample is evaluated against it
MinBaselineSamples == 10
\* the values a metric needs before _update_baselines computes its statistics
MinValues == 2

\* prometheus_client.MetricSnapshot
MetricSnapshot(timestamp, samples) == [timestamp |-> timestamp, samples |-> samples]

RECURSIVE SumSeq(_)
SumSeq(values) ==
    IF values = <<>> THEN 0 ELSE Head(values) + SumSeq(Tail(values))

MinOf(values) == CHOOSE x \in {values[i] : i \in DOMAIN values} :
                    \A i \in DOMAIN values : x <= values[i]
MaxOf(values) == CHOOSE x \in {values[i] : i \in DOMAIN values} :
                    \A i \in DOMAIN values : x >= values[i]

\* the metric names that occur in a sequence of snapshots
NamesOf(snapshots) ==
    UNION {{snapshots[i].samples[j].name : j \in DOMAIN snapshots[i].samples} :
              i \in DOMAIN snapshots}

\* metric_values[name] of _update_baselines: the values of the samples of one
\* name, over the snapshots in order
RECURSIVE metric_values(_, _)
metric_values(name, snapshots) ==
    IF snapshots = <<>> THEN <<>>
    ELSE LET own == SelectSeq(Head(snapshots).samples, LAMBDA x : x.name = name)
         IN  [i \in 1..Len(own) |-> own[i].value]
                \o metric_values(name, Tail(snapshots))

\* the snapshots _update_baselines does not skip
InWindow(snapshots, cutoff_time) ==
    SelectSeq(snapshots, LAMBDA m : ~(m.timestamp < cutoff_time))

\* the statistics _update_baselines stores for one metric; variance is
\* (n * sum of squares - (sum)^2) / n^2
Statistics(values, t) ==
    LET n == Len(values)
        total == SumSeq(values)
        squares == SumSeq([i \in 1..n |-> values[i] * values[i]])
    IN  [mean |-> Ratio(total, n),
         variance |-> Ratio(n * squares - total * total, n * n),
         min |-> MinOf(values), max |-> MaxOf(values),
         sample_count |-> n, last_updated |-> t]

\* mutant: a metric that has fewer than two values in the window loses its entry
UpdateBaselinesDropStale(recent, baselines, t, window) ==
    LET inside == InWindow(recent, t - window * Minute)
        updated == {name \in NamesOf(inside) :
                       Len(metric_values(name, inside)) >= MinValues}
    IN  [name \in updated |-> Statistics(metric_values(name, inside), t)]

\* _update_baselines: the table after the update at time t
_update_baselines(recent, baselines, t, window) ==
    LET cutoff_time == t - window * Minute
        inside == InWindow(recent, cutoff_time)
        updated == {name \in NamesOf(inside) :
                       Len(metric_values(name, inside)) >= MinValues}
    IN  [name \in (DOMAIN baselines) \cup updated |->
            IF name \in updated
            THEN Statistics(metric_values(name, inside), t)
            ELSE baselines[name]]

\* (abs(value - mean) / std) squared: mean is total/n and variance is D/(n*n),
\* so the square of the deviation is (value*n - total)^2 / D
Deviation(value, baseline) ==
    LET d == value * baseline.mean.den - baseline.mean.num
    IN  Ratio(d * d, baseline.variance.num)

\* deviation > limit, for a squared deviation and a limit >= 0
Exceeds(deviation, limit) ==
    deviation.num * limit.den * limit.den > limit.num * limit.num * deviation.den

Above(value, mean) == value * mean.den > mean.num

\* mutant: the buckets of the example of the specification, high from 3.0 on
SeverityHighFromThree(deviation) ==
    IF Exceeds(deviation, Ratio(5, 1)) THEN "critical"
    ELSE IF deviation.num >= 9 * deviation.den THEN "high"
    ELSE IF Exceeds(deviation, Ratio(5, 2)) THEN "medium"
    ELSE "low"

\* the severity of _create_anomaly
AnomalySeverity(deviation) ==
    IF Exceeds(deviation, Ratio(5, 1)) THEN "critical"
    ELSE IF Exceeds(deviation, Ratio(7, 2)) THEN "high"
    ELSE IF Exceeds(deviation, Ratio(5, 2)) THEN "medium"
    ELSE "low"

\* _create_anomaly: the MetricAnomaly; deviation_score is kept squared
_create_anomaly(sample, baseline, deviation, timestamp) ==
    [metric_name |-> sample.name,
     detected_at |-> timestamp,
     anomaly_type |-> IF Above(sample.value, baseline.mean) THEN "spike" ELSE "drop",
     severity |-> AnomalySeverity(deviation),
     current_value |-> sample.value,
     expected_range |-> [mean |-> baseline.mean, variance |-> baseline.variance],
     deviation_score |-> deviation,
     sample_count |-> baseline.sample_count]

NoAnomaly ==
    [metric_name |-> "", detected_at |-> 0, anomaly_type |-> "", severity |-> "",
     current_value |-> 0,
     expected_range |-> [mean |-> Ratio(0, 1), variance |-> Ratio(0, 1)],
     deviation_score |-> Ratio(0, 1), sample_count |-> 0]

Verdict(sample, verdict, anomaly) ==
    [sample |-> sample, verdict |-> verdict, anomaly |-> anomaly]

\* mutant: a deviation equal to the threshold is an anomaly too
TestSampleInclusive(sample, baselines, threshold, current_time) ==
    IF sample.name \notin DOMAIN baselines
    THEN Verdict(sample, "no_baseline", NoAnomaly)
    ELSE LET baseline == baselines[sample.name]
             deviation == Deviation(sample.value, baseline)
         IN  IF baseline.sample_count < MinBaselineSamples
             THEN Verdict(sample, "few_samples", NoAnomaly)
             ELSE IF baseline.variance.num = 0
             THEN Verdict(sample, "zero_std", NoAnomaly)
             ELSE IF deviation.num * threshold.den * threshold.den
                        >= threshold.num * threshold.num * deviation.den
             THEN Verdict(sample, "anomaly",
                          _create_anomaly(sample, baseline, deviation, current_time))
             ELSE Verdict(sample, "normal", NoAnomaly)

\* mutant: a baseline is evaluated whatever its sample count
TestSampleAnyCount(sample, baselines, threshold, current_time) ==
    IF sample.name \notin DOMAIN baselines
    THEN Verdict(sample, "no_baseline", NoAnomaly)
    ELSE LET baseline == baselines[sample.name]
             deviation == Deviation(sample.value, baseline)
         IN  IF baseline.variance.num = 0
             THEN Verdict(sample, "zero_std", NoAnomaly)
             ELSE IF Exceeds(deviation, threshold)
             THEN Verdict(sample, "anomaly",
                          _create_anomaly(sample, baseline, deviation, current_time))
             ELSE Verdict(sample, "normal", NoAnomaly)

\* the body of the loop of _detect_anomalies for one sample
TestSample(sample, baselines, threshold, current_time) ==
    IF sample.name \notin DOMAIN baselines
    THEN Verdict(sample, "no_baseline", NoAnomaly)
    ELSE LET baseline == baselines[sample.name]
             deviation == Deviation(sample.value, baseline)
         IN  IF baseline.sample_count < MinBaselineSamples
             THEN Verdict(sample, "few_samples", NoAnomaly)
             ELSE IF baseline.variance.num = 0
             THEN Verdict(sample, "zero_std", NoAnomaly)
             ELSE IF Exceeds(deviation, threshold)
             THEN Verdict(sample, "anomaly",
                          _create_anomaly(sample, baseline, deviation, current_time))
             ELSE Verdict(sample, "normal", NoAnomaly)

\* _detect_anomalies: one verdict per sample of the snapshot, all against the
\* table as it is before _update_baselines
_detect_anomalies(snapshot, baselines, threshold, current_time) ==
    [i \in DOMAIN snapshot.samples |->
        TestSample(snapshot.samples[i], baselines, threshold, current_time)]

\* the anomalies of a sequence of verdicts, in order
Anomalies(tests) ==
    LET hits == SelectSeq(tests, LAMBDA v : v.verdict = "anomaly")
    IN  [i \in 1..Len(hits) |-> hits[i].anomaly]

\* the calls of the callback loop for a sequence of anomalies: every callback
\* for every anomaly, in order
RECURSIVE Notifications(_, _)
Notifications(anomalies, callbacks) ==
    IF anomalies = <<>> THEN <<>>
    ELSE [i \in 1..Len(callbacks) |-> <<callbacks[i], Head(anomalies)>>]
            \o Notifications(Tail(anomalies), callbacks)

\* recent_metrics after the append and the eviction
Retained(recent, snapshot, t) ==
    LET cutoff_time == t - RetentionSeconds * TicksPerSecond
    IN  SelectSeq(Append(recent, snapshot), LAMBDA m : m.timestamp > cutoff_time)

add_anomaly_callback ==
    /\ Len(anomaly_callbacks) < MaxCallbacks
    /\ anomaly_callbacks' = Append(anomaly_callbacks, Len(anomaly_callbacks) + 1)
    /\ UNCHANGED <<collector_frame, float_vars, now, is_collecting, collector_config,
                   metric_baselines, recent_metrics, stats, anomaly_log,
                   anomaly_notified, collected, polls, poll>>

start_collection ==
    /\ ~is_collecting
    /\ is_collecting' = TRUE
    /\ UNCHANGED <<collector_frame, float_vars, now, collector_config, metric_baselines,
                   recent_metrics, anomaly_callbacks, stats, anomaly_log,
                   anomaly_notified, collected, polls, poll>>

stop_collection ==
    /\ is_collecting
    /\ is_collecting' = FALSE
    /\ UNCHANGED <<collector_frame, float_vars, now, collector_config, metric_baselines,
                   recent_metrics, anomaly_callbacks, stats, anomaly_log,
                   anomaly_notified, collected, polls, poll>>

\* outcomes of prometheus_client.collect_metrics(): a snapshot with these
\* samples, None, or an exception
Scraped(samples) == [kind |-> "snapshot", samples |-> samples]
NoSnapshot == {[kind |-> "none", samples |-> <<>>],
               [kind |-> "raises", samples |-> <<>>]}
Scrapes == {Scraped(samples) : samples \in SampleLists} \cup NoSnapshot
\* outcomes of database.store_metrics(snapshot)
StoreOutcomes == {"stored", "raises"}

\* _collect_and_analyze with a snapshot collected at time t
Analyze(t, samples, store, raisers) ==
    LET snapshot == MetricSnapshot(t, samples)
        recent == Retained(recent_metrics, snapshot, t)
        tests == IF anomaly_detection_enabled
                 THEN _detect_anomalies(snapshot, metric_baselines,
                                        anomaly_threshold_std, t)
                 ELSE <<>>
        found == Anomalies(tests)
    IN  /\ stats' = [stats EXCEPT
                       !.prometheus_requests = @ + 1,
                       !.metrics_collected = @ + Len(samples),
                       !.database_writes = IF store = "stored" THEN @ + 1 ELSE @,
                       !.database_write_failures =
                            IF store = "stored" THEN @ ELSE @ + 1,
                       !.anomalies_detected = @ + Len(found)]
        /\ recent_metrics' = recent
        /\ anomaly_log' = anomaly_log \o found
        /\ anomaly_notified' =
              anomaly_notified \o Notifications(found, anomaly_callbacks)
        /\ metric_baselines' =
              _update_baselines(recent, metric_baselines, t, baseline_window)
        /\ collected' = Append(collected, snapshot)
        /\ poll' = [outcome |-> "collected", at |-> t,
                    baselines |-> metric_baselines, tests |-> tests,
                    raised |-> IF found = <<>> THEN {} ELSE raisers]

\* One iteration of the loop of start_collection: _collect_and_analyze, then
\* the sleep of collection_interval.  outcomes: what collect_metrics gives;
\* stores: what store_metrics does; raising: whether anomaly callbacks raise.
Collect(outcomes, stores, raising) ==
    /\ is_collecting
    /\ \E outcome \in outcomes :
          IF outcome \in NoSnapshot
          THEN /\ stats' = [stats EXCEPT !.prometheus_request_failures =
                               IF outcome.kind = "none" THEN @ + 1 ELSE @]
               /\ poll' = [outcome |-> IF outcome.kind = "none" THEN "no_snapshot"
                                       ELSE "raised",
                           at |-> now, baselines |-> metric_baselines,
                           tests |-> <<>>, raised |-> {}]
               /\ UNCHANGED <<metric_baselines, recent_metrics, anomaly_log,
                              anomaly_notified, collected>>
          ELSE \E store \in stores :
               \E raisers \in IF raising THEN SUBSET (1..Len(anomaly_callbacks))
                              ELSE {{}} :
                  Analyze(now, outcome.samples, store, raisers)
    /\ now' = now + collection_interval * Minute
    /\ polls' = polls + 1
    /\ UNCHANGED <<collector_frame, float_vars, is_collecting, collector_config,
                   anomaly_callbacks>>

_collect_and_analyze ==
    /\ polls < MaxPolls
    /\ Collect(Scrapes, {"stored"}, FALSE)

NextAnomaly ==
    \/ add_anomaly_callback
    \/ start_collection
    \/ stop_collection
    \/ _collect_and_analyze

InitAnomaly ==
    /\ InitMonitor
    /\ sev_in = <<0, 0>>
    /\ sev_out = <<>>
    /\ IdleClient
    /\ IdleModel
    /\ InitCollector
    /\ IdleStream
    /\ ~consensus_rpc_url

SpecAnomaly == InitAnomaly /\ [][NextAnomaly]_vars

\* ---------------------------------- a metric with float values, constant
\* The values of the samples are Python floats.  The model above keeps them
\* exact, which they are for integers; here one metric is followed whose
\* every collected sample has the same value, with binary64 arithmetic.
\* the values of the stream and of the sample that follows it
StreamValues == {Ratio(1, 10), Ratio(1, 2), Ratio(33, 10)}
NextValues == {Ratio(1, 10), Ratio(1, 2), Ratio(100, 1)}
\* how many samples of the metric are in the baseline window
StreamCounts == {10, 11, 12}
\* sum() of a list of floats: one rounded addition per element up to
\* CPython 3.11, with Neumaier's compensation from 3.12
Summations == {"plain", "compensated"}

\* the float a decimal literal num/den denotes: the nearest one
FloatOfRatio(r) == FloatDiv(FloatOfInt(r.num), FloatOfInt(r.den))

\* abs(a) >= abs(b)
FloatAbsAtLeast(a, b) == ~FloatGreater(FloatAbs(b), FloatAbs(a))

\* the compensated sum of CPython 3.12: the total and the compensation c
RECURSIVE CompensatedFrom(_)
CompensatedFrom(values) ==
    IF values = <<>> THEN [total |-> FloatZero, c |-> FloatZero]
    ELSE LET before == CompensatedFrom(SubSeq(values, 1, Len(values) - 1))
             x == values[Len(values)]
             t == FloatAdd(before.total, x)
         IN  [total |-> t,
              c |-> IF FloatAbsAtLeast(before.total, x)
                    THEN FloatAdd(before.c,
                                  FloatAdd(FloatSub(before.total, t), x))
                    ELSE FloatAdd(before.c,
                                  FloatAdd(FloatSub(x, t), before.total))]

CompensatedSum(values) ==
    LET s == CompensatedFrom(values) IN FloatAdd(s.total, s.c)

FloatSum(values, summation) ==
    IF summation = "plain" THEN PlainSum(values) ELSE CompensatedSum(values)

\* the baseline _update_baselines computes of these values
FloatStatistics(values, summation) ==
    LET n == FloatOfInt(Len(values))
        mean == FloatDiv(FloatSum(values, summation), n)
        squares == [i \in DOMAIN values |->
                       LET d == FloatSub(values[i], mean) IN FloatMul(d, d)]
        variance == FloatDiv(FloatSum(squares, summation), n)
    IN  [mean |-> mean, std |-> FloatSqrt(variance), sample_count |-> Len(values)]

\* what _detect_anomalies makes of a sample of this value
FloatVerdict(value, baseline, threshold) ==
    IF baseline.sample_count < MinBaselineSamples THEN "few_samples"
    ELSE IF baseline.std = FloatZero THEN "zero_std"
    ELSE LET deviation ==
                 FloatDiv(FloatAbs(FloatSub(value, baseline.mean)), baseline.std)
         IN  IF FloatGreater(deviation, FloatOfRatio(threshold))
             THEN "anomaly" ELSE "normal"

\* the values of the metric in the baseline window: all the same
StreamSamples == [i \in 1..stream.count |-> FloatOfRatio(stream.value)]

\* _update_baselines once the samples of the stream are collected
update_float_baseline ==
    /\ float_baseline = NoFloatBaseline
    /\ float_baseline' = FloatStatistics(StreamSamples, stream.summation)
    /\ UNCHANGED <<collector_frame, now, is_collecting, collector_config,
                   metric_baselines, recent_metrics, anomaly_callbacks, stats,
                   anomaly_log, anomaly_notified, collected, polls, poll,
                   stream, float_verdict>>

\* _detect_anomalies on the next sample of the metric
detect_float_anomaly ==
    /\ float_baseline # NoFloatBaseline
    /\ float_verdict = "none"
    /\ float_verdict' = FloatVerdict(FloatOfRatio(stream.next), float_baseline,
                                     anomaly_threshold_std)
    /\ UNCHANGED <<collector_frame, now, is_collecting, collector_config,
                   metric_baselines, recent_metrics, anomaly_callbacks, stats,
                   anomaly_log, anomaly_notified, collected, polls, poll,
                   stream, float_baseline>>

NextFloat ==
    \/ update_float_baseline
    \/ detect_float_anomaly

InitFloat ==
    /\ InitMonitor
    /\ sev_in = <<0, 0>>
    /\ sev_out = <<>>
    /\ IdleClient
    /\ IdleModel
    /\ DefaultCollector
    /\ ~consensus_rpc_url
    /\ stream \in [value : StreamValues, count : StreamCounts,
                    next : NextValues, summation : Summations]
    /\ float_baseline = NoFloatBaseline
    /\ float_verdict = "none"

SpecFloat == InitFloat /\ [][NextFloat]_vars

\* ------------------------------------------------- the node detector
\* strings, as the sequences of their characters
BSC ==
    <<"b", "s", "c">>
GETH_IPC ==
    <<"g", "e", "t", "h", ".", "i", "p", "c">>
RETH_IPC ==
    <<"r", "e", "t", "h", ".", "i", "p", "c">>
TMP ==
    <<"t", "m", "p">>
VAR_LIB_BSC_GETH_IPC ==
    <<"/", "v", "a", "r", "/", "l", "i", "b", "/", "b", "s", "c", "/", "g", "e", "t", "h", ".", "i", "p", "c">>
TMP_RETH_IPC ==
    <<"/", "t", "m", "p", "/", "r", "e", "t", "h", ".", "i", "p", "c">>
TMP_GETH_IPC ==
    <<"/", "t", "m", "p", "/", "g", "e", "t", "h", ".", "i", "p", "c">>
HOME_ETHEREUM_GETH_IPC ==
    <<"~", "/", ".", "e", "t", "h", "e", "r", "e", "u", "m", "/", "g", "e", "t", "h", ".", "i", "p", "c">>
DATA_NODE_SOCK ==
    <<"/", "d", "a", "t", "a", "/", "n", "o", "d", "e", ".", "s", "o", "c", "k">>
UPPER_TMP_RETH_IPC ==
    <<"/", "T", "M", "P", "/", "R", "E", "T", "H", ".", "I", "P", "C">>

\* str.lower() on the letters the paths below are written with
Lower(c) ==
    CASE c = "B" -> "b" [] c = "C" -> "c" [] c = "E" -> "e" [] c = "G" -> "g"
      [] c = "H" -> "h" [] c = "I" -> "i" [] c = "M" -> "m" [] c = "N" -> "n"
      [] c = "P" -> "p" [] c = "R" -> "r" [] c = "S" -> "s" [] c = "T" -> "t"
      [] OTHER -> c

lower(s) == [i \in DOMAIN s |-> Lower(s[i])]

\* "sub in s" of two strings
Contains(s, sub) ==
    \E i \in 0..(Len(s) - Len(sub)) : SubSeq(s, i + 1, i + Len(sub)) = sub

\* utils/config.py, detect_network_from_ipc: ipc_path.lower() raises the
\* AttributeError of None
detect_network_from_ipc(socket) ==
    IF socket.none THEN "AttributeError"
    ELSE LET path == lower(socket.chars)
         IN  IF Contains(path, BSC) \/ Contains(path, GETH_IPC)
             THEN "bsc"
             ELSE IF Contains(path, RETH_IPC) \/ Contains(path, TMP)
             THEN "base"
             ELSE "bsc"

\* the table of _determine_network
chain_id_to_network ==
    (1 :> "ethereum") @@ (56 :> "bsc") @@ (8453 :> "base")
       @@ (97 :> "bsc_testnet") @@ (84531 :> "base_goerli")

\* NodeDetector._determine_network, networks being the keys of
\* config['node']['networks']: a network name, or the exception it raises
_determine_network(chain_id, socket, networks) ==
    IF chain_id \in DOMAIN chain_id_to_network
          /\ chain_id_to_network[chain_id] \in networks
    THEN chain_id_to_network[chain_id]
    ELSE LET network_from_path == detect_network_from_ipc(socket)
         IN  IF network_from_path = "AttributeError" THEN "AttributeError"
             ELSE IF network_from_path \in networks THEN network_from_path
             ELSE "bsc"

\* utils/config.py, get_network_config
get_network_config(networks, network_name) ==
    IF network_name \notin networks THEN "ValueError" ELSE "config"

\* the chain ids a node answers with: those of the table and one more
ChainIds == DOMAIN chain_id_to_network \cup {137}

\* the paths _auto_detect_node tries, configured paths, and no path (the probe
\* over HTTP of l.92, l.109 and l.113)
IpcPaths ==
    {PathOf(VAR_LIB_BSC_GETH_IPC), PathOf(TMP_RETH_IPC), PathOf(TMP_GETH_IPC),
     PathOf(HOME_ETHEREUM_GETH_IPC), PathOf(DATA_NODE_SOCK),
     PathOf(UPPER_TMP_RETH_IPC), PathOf(<<>>), NoPath}

\* the keys config['node']['networks'] may have
ConfiguredNetworks == SUBSET {"bsc", "base", "ethereum"}

\* NodeDetector._probe_node: the two exchanges with the node, the network, its
\* configuration
_probe_node ==
    /\ probe.node_info = "none"
    /\ LET network == _determine_network(probe.chain_id, probe.ipc_path,
                                         probe.networks)
       IN  probe' =
              IF ~probe.reachable
              THEN [probe EXCEPT !.node_info = "RuntimeError"]
              ELSE IF network = "AttributeError"
              THEN [probe EXCEPT !.network = network,
                                 !.node_info = "AttributeError"]
              ELSE [probe EXCEPT !.network = network,
                                 !.node_info =
                                    IF get_network_config(probe.networks, network)
                                          = "ValueError"
                                    THEN "ValueError" ELSE "NodeInfo"]
    /\ UNCHANGED <<sync_monitor_vars, sev_vars, client_vars, collector_vars,
                   sync_status, observed>>

NextDetector == _probe_node

InitDetector ==
    /\ InitMonitor
    /\ sev_in = <<0, 0>>
    /\ sev_out = <<>>
    /\ IdleClient
    /\ sync_status = SyncStatus(FALSE, 0, 0)
    /\ observed = <<>>
    /\ IdleCollector
    /\ probe \in [chain_id : ChainIds, ipc_path : IpcPaths,
                  networks : ConfiguredNetworks, reachable : BOOLEAN,
                  network : {"none"}, node_info : {"none"}]

SpecDetector == InitDetector /\ [][NextDetector]_vars

\* ------------------------------------- the two polling loops with failures
\* states of the connection of the database
Connections == {"open", "failing", "closed"}

\* what collect_metrics gives in a run with failures: no snapshot, an
\* exception, a snapshot that fills the baseline, a sample far from it
FaultScrapes ==
    NoSnapshot \cup {Scraped(Repeat(MetricSample("m", 90), 5)
                                \o Repeat(MetricSample("m", 110), 5)),
                     Scraped(<<MetricSample("m", 160)>>)}

\* main.py, _setup_event_callbacks: one observer in each registry
_setup_event_callbacks ==
    /\ desync_callbacks = <<>>
    /\ recovery_callbacks = <<>>
    /\ anomaly_callbacks = <<>>
    /\ desync_callbacks' = <<1>>
    /\ recovery_callbacks' = <<1>>
    /\ anomaly_callbacks' = <<1>>
    /\ UNCHANGED <<config_vars, monitor_vars, status_vars, call_vars,
                   crossing_vars, sev_vars, client_vars, model_vars, float_vars,
                   is_running, now, cycles, last, scen, is_collecting,
                   collector_config, metric_baselines, recent_metrics, stats,
                   anomaly_log, anomaly_notified, collected, polls, poll>>

\* the environment of the database: its statements start to fail, the
\* connection is closed (database.close), it is opened again (initialize)
database_fault ==
    /\ \E connection \in Connections \ {database} : database' = connection
    /\ UNCHANGED <<desync_threshold, consensus_rpc_url, task_vars, registry_vars,
                   monitor_vars, status_vars, call_vars, crossing_vars,
                   other_vars, is_running, now, cycles, last, scen>>

\* what the local node and the consensus endpoint give in a run with failures
FaultLocals == {17, None, Raises}
FaultResponses == {[kind |-> "ok", result |-> <<1, 4>>],
                   [kind |-> "timeout", result |-> <<>>],
                   [kind |-> "exception", result |-> <<>>]}

\* an iteration of the monitoring loop in which the local poll, the fetch of
\* the reference, the store and the observers may fail
_check_sync_status_failing ==
    /\ cycles < LoopCycles
    /\ Cycle(FaultLocals, FaultResponses)

\* an iteration of the collection loop in which the scrape, the store and the
\* anomaly callbacks may fail
_collect_and_analyze_failing ==
    /\ polls < LoopPolls
    /\ Collect(FaultScrapes, StoreOutcomes, TRUE)

NextLoops ==
    \/ _setup_event_callbacks
    \/ database_fault
    \/ start_monitoring
    \/ stop_monitoring
    \/ _check_sync_status_failing
    \/ start_collection
    \/ stop_collection
    \/ _collect_and_analyze_failing

InitLoops ==
    /\ InitMonitor
    /\ sev_in = <<0, 0>>
    /\ sev_out = <<>>
    /\ IdleClient
    /\ IdleModel
    /\ IdleCollector
    /\ consensus_rpc_url

SpecLoops == InitLoops /\ [][NextLoops]_vars

\* ------------------------------ the cycle of the monitor, await by await
\* the awaits of a cycle that wait for an answer of the node or of the
\* consensus endpoint
NetworkAwaits == {"poll", "fetch", "peers", "context"}
\* what an await of the IPC client does inside a handler
Awaits == {"returns", "raises"}
\* responses of the consensus endpoint in the cycles followed await by await
StepResponses == {[kind |-> "ok", result |-> <<1, 4>>],
                  [kind |-> "ok", result |-> <<7, 8>>],
                  [kind |-> "timeout", result |-> <<>>]}

\* what the steps of a cycle leave alone; last, scen and the crossings are
\* the history of whole cycles
step_frame == <<desync_threshold, consensus_rpc_url, database, registry_vars,
                crossing_vars, other_vars, last, scen>>

\* the registry a handler notifies
CallbacksOf(handler) ==
    IF handler = "detect" THEN desync_callbacks ELSE recovery_callbacks

\* _check_for_desync has returned or caught (l.232): l.197, and the cycle ends
CycleEnds ==
    /\ step' = NoStep
    /\ last_metrics_collection' = now

\* mutant: the slot is cleared and the list is left as it is
HandlerCompletesListKept ==
    /\ IF step.handler = "recover"
       THEN /\ active_desyncs' = active_desyncs
            /\ current_desync' = NoEvent
       ELSE UNCHANGED <<current_desync, active_desyncs>>
    /\ CycleEnds

\* the handler runs to its end after the callback loop: l.299-302, l.324-333
HandlerCompletes ==
    /\ IF step.handler = "recover"
       THEN /\ active_desyncs' = Remove(active_desyncs, current_desync)
            /\ current_desync' = NoEvent
       ELSE UNCHANGED <<current_desync, active_desyncs>>
    /\ CycleEnds

\* l.164-166, l.184-186: the sleep is over, is_running holds and
\* _check_sync_status awaits get_sync_status
BeginCycle(bound) ==
    /\ is_running
    /\ ~shutdown
    /\ step.at = "sleep"
    /\ cycles < bound
    /\ \E dt \in SleepTicks : now' = now + dt
    /\ step' = [NoStep EXCEPT !.at = "poll"]
    /\ cycles' = cycles + 1
    /\ UNCHANGED <<step_frame, shutdown, is_running, monitor_vars, status_vars,
                   call_vars>>

begin_cycle == BeginCycle(MaxCycles)

\* l.186-194: get_sync_status returns a status, returns None or raises
poll_returns ==
    /\ step.at = "poll"
    /\ \E local \in LocalOutcomes :
          IF local \in {None, Raises}
          THEN /\ step' = NoStep
               /\ UNCHANGED status_vars
          ELSE /\ current_sync_status' = local
               /\ step' = [NoStep EXCEPT !.at = "fetch", !.local = local]
               /\ UNCHANGED last_metrics_collection
    /\ UNCHANGED <<step_frame, shutdown, is_running, monitor_vars, call_vars,
                   now, cycles>>

\* l.211-230: _get_consensus_block_height returns; the branches of
\* _check_for_desync up to their first await
fetch_returns ==
    /\ step.at = "fetch"
    /\ \E resp \in StepResponses :
          LET consensus_block == _get_consensus_block_height(resp)
              blocks_behind == consensus_block - step.local
          IN IF consensus_block = None
             THEN /\ CycleEnds
                  /\ UNCHANGED monitor_vars
             ELSE IF blocks_behind >= desync_threshold
             THEN IF current_desync = NoEvent
                  \* l.270-271: the event id is read, get_peer_count is awaited
                  THEN /\ step' = [step EXCEPT !.at = "peers", !.handler = "detect",
                                               !.ref = consensus_block, !.t = now]
                       /\ UNCHANGED <<monitor_vars, last_metrics_collection>>
                  ELSE /\ events' = [events EXCEPT ![current_desync] =
                                        Refreshed(@, step.local, consensus_block,
                                                  blocks_behind)]
                       /\ UNCHANGED <<current_desync, active_desyncs>>
                       /\ CycleEnds
             ELSE IF current_desync # NoEvent
                  \* l.309-314: the event is sealed, its data are awaited
                  THEN /\ events' = [events EXCEPT ![current_desync] = Sealed(@, now)]
                       /\ step' = [step EXCEPT !.at = "context", !.handler = "recover",
                                               !.ref = consensus_block]
                       /\ UNCHANGED <<current_desync, active_desyncs,
                                      last_metrics_collection>>
                  ELSE /\ CycleEnds
                       /\ UNCHANGED monitor_vars
    /\ UNCHANGED <<step_frame, shutdown, is_running, current_sync_status,
                   call_vars, now, cycles>>

\* l.271-287: get_peer_count returns and the event is made the active one,
\* or it raises and the exception is caught at l.232
peers_returns ==
    /\ step.at = "peers"
    /\ \E outcome \in Awaits :
          IF outcome = "raises"
          THEN /\ UNCHANGED <<monitor_vars, now>>
               /\ CycleEnds
          ELSE \E peers \in PeerCounts, d \in DelayTicks :
               /\ events' = Append(events,
                                NewDesyncEvent(step.t, d, step.local, step.ref,
                                               step.ref - step.local, peers))
               /\ current_desync' = Len(events) + 1
               /\ active_desyncs' = Append(active_desyncs, Len(events) + 1)
               /\ now' = step.t + d
               /\ step' = [step EXCEPT !.at = "context"]
               /\ UNCHANGED last_metrics_collection
    /\ UNCHANGED <<step_frame, shutdown, is_running, current_sync_status,
                   call_vars, cycles>>

\* l.349: get_peer_count inside _create_detailed_event_data returns, or it
\* raises and the exception leaves the handler
context_returns ==
    /\ step.at = "context"
    /\ \E outcome \in Awaits :
          IF outcome = "raises"
          THEN CycleEnds
          ELSE /\ step' = [step EXCEPT !.at = "store"]
               /\ UNCHANGED last_metrics_collection
    /\ UNCHANGED <<step_frame, shutdown, is_running, monitor_vars,
                   current_sync_status, call_vars, now, cycles>>

\* l.290, l.315: store_desync_event returns or raises; l.293, l.318: the loop
\* over the registry begins
store_returns ==
    /\ step.at = "store"
    /\ store_log' = Append(store_log,
                           _create_detailed_event_data(events[current_desync]))
    /\ IF store_desync_event(database) = "raises"
       THEN /\ CycleEnds
            /\ UNCHANGED <<monitor_vars, desync_emitted, recovery_emitted>>
       ELSE /\ IF step.handler = "detect"
               THEN /\ desync_emitted' = Append(desync_emitted, current_desync)
                    /\ UNCHANGED recovery_emitted
               ELSE /\ recovery_emitted' = Append(recovery_emitted, current_desync)
                    /\ UNCHANGED desync_emitted
            /\ IF CallbacksOf(step.handler) = <<>>
               THEN /\ HandlerCompletes
                    /\ UNCHANGED events
               ELSE /\ step' = [step EXCEPT !.at = "notify", !.k = 1]
                    /\ UNCHANGED <<monitor_vars, last_metrics_collection>>
    /\ UNCHANGED <<step_frame, shutdown, is_running, current_sync_status, now,
                   cycles>>

\* l.293-297, l.318-322: the callback awaited returns, or raises an Exception
\* that is logged; the next one is awaited, or the handler goes on
callback_returns ==
    /\ step.at = "notify"
    /\ IF step.k < Len(CallbacksOf(step.handler))
       THEN /\ step' = [step EXCEPT !.k = @ + 1]
            /\ UNCHANGED <<monitor_vars, last_metrics_collection>>
       ELSE /\ HandlerCompletes
            /\ UNCHANGED events
    /\ UNCHANGED <<step_frame, shutdown, is_running, current_sync_status,
                   call_vars, now, cycles>>

\* main.py l.223 and l.180-182: the task is cancelled; CancelledError is
\* raised at the await the task is suspended in, no except Exception catches
\* it, and l.171-172 ends the loop
interrupt ==
    /\ ~shutdown
    /\ is_running \/ step.at # "sleep"
    /\ shutdown' = TRUE
    /\ is_running' = FALSE
    /\ step' = NoStep
    /\ UNCHANGED <<step_frame, monitor_vars, status_vars, call_vars, now, cycles>>

\* main.py l.137: the task of start_monitoring is created
create_task ==
    /\ ~shutdown
    /\ start_monitoring

NextAwaits ==
    \/ _setup_event_callbacks
    \/ create_task
    \/ stop_monitoring
    \/ begin_cycle
    \/ poll_returns
    \/ fetch_returns
    \/ peers_returns
    \/ context_returns
    \/ store_returns
    \/ callback_returns
    \/ interrupt

InitAwaits ==
    /\ Init
    /\ consensus_rpc_url

SpecAwaits == InitAwaits /\ [][NextAwaits]_vars

\* ------------------------------ the two loops, tasks of one event loop
\* main.py l.136-143: each loop is a task of its own, and gather keeps the
\* other when one has ended.  The event loop resumes a task when the await
\* it is suspended in is done, wherever the other task is suspended.
\* mutant: one coroutine awaits the iterations of the two loops in turn
ResumableInTurn(own_await_done, other_suspended) ==
    own_await_done /\ ~other_suspended

Resumable(own_await_done, other_suspended) == own_await_done

\* what collect_metrics gives while the monitor is followed await by await
TaskScrapes == {Scraped(<<MetricSample("m", 90)>>)}

\* the sleep of the monitor is over, in a run of TaskCycles cycles
task_begins_cycle == BeginCycle(TaskCycles)

\* main.py l.136-138, after initialize: the tasks of start_monitoring and of
\* start_collection are created and run up to their first await
create_tasks ==
    /\ desync_callbacks # <<>>
    /\ ~is_running
    /\ ~is_collecting
    /\ cycles = 0
    /\ polls = 0
    /\ is_running' = TRUE
    /\ is_collecting' = TRUE
    /\ UNCHANGED <<config_vars, registry_vars, monitor_vars, status_vars,
                   call_vars, crossing_vars, sev_vars, client_vars, model_vars,
                   collector_config, metric_baselines, recent_metrics,
                   anomaly_callbacks, stats, anomaly_log, anomaly_notified,
                   collected, polls, poll, float_vars, now, cycles, last, scen>>

\* metrics_collector.py l.93-95: collect_metrics has answered; the rest of
\* the iteration and its sleep follow
collector_resumes ==
    /\ polls < LoopPolls
    /\ Resumable(TRUE, step.at \in NetworkAwaits)
    /\ Collect(TaskScrapes, {"stored"}, FALSE)

\* sync_monitor.py l.166-171: asyncio.sleep raises the TypeError of a
\* sync_check_interval_seconds that is not a number (l.70 reads it as it is);
\* the exception ends the loop after its first cycle
monitor_sleep_raises ==
    /\ is_running
    /\ step.at = "sleep"
    /\ cycles = 1
    /\ is_running' = FALSE
    /\ UNCHANGED <<config_vars, registry_vars, monitor_vars, status_vars,
                   call_vars, crossing_vars, other_vars, now, cycles, last, scen>>

\* metrics_collector.py l.95-100: the same in the loop of start_collection
collector_sleep_raises ==
    /\ is_collecting
    /\ polls = 1
    /\ is_collecting' = FALSE
    /\ UNCHANGED <<collector_frame, float_vars, now, collector_config,
                   metric_baselines, recent_metrics, anomaly_callbacks, stats,
                   anomaly_log, anomaly_notified, collected, polls, poll>>

\* the steps of the monitor that wait for an answer from outside
MonitorAnswered ==
    \/ poll_returns
    \/ fetch_returns
    \/ peers_returns
    \/ context_returns

\* the steps of the monitor the event loop makes by itself: the timer of the
\* sleep, the store in the local file, the observers
MonitorScheduled ==
    \/ task_begins_cycle
    \/ store_returns
    \/ callback_returns

NextTasks ==
    \/ _setup_event_callbacks
    \/ create_tasks
    \/ MonitorScheduled
    \/ MonitorAnswered
    \/ monitor_sleep_raises
    \/ collector_resumes
    \/ collector_sleep_raises

InitTasks ==
    /\ Init
    /\ consensus_rpc_url

\* a task that can run is run; no answer from outside is promised
SpecTasks ==
    InitTasks /\ [][NextTasks]_vars /\ WF_vars(MonitorScheduled)

\* ================================================================ claims
ActiveEvents == {i \in DOMAIN events : is_active(events[i])}

\* C1: after any sequence of poll cycles, successful or failed, at most one
\* DesyncEvent is active: at most one event has no recovery timestamp, the slot
\* current_desync refers to it, and active_desyncs has at most one element.
C1_AtMostOneActive ==
    /\ Len(active_desyncs) <= 1
    /\ Cardinality(ActiveEvents) <= 1
    /\ \A i \in ActiveEvents : current_desync = i

\* a second incident is active after the first one has recovered
C1_Witness ==
    /\ Len(events) = 2
    /\ ~is_active(events[1])
    /\ current_desync = 2
    /\ active_desyncs = <<2>>

CycleStep == cycles' = cycles + 1

\* the cycle's local poll and reference fetch both succeeded
SuccessfulStep ==
    /\ CycleStep
    /\ last'.local # None
    /\ RawHeight(last'.resp) # None

\* reference_height - local_block of the cycle
StepBehind == RawHeight(last'.resp) - last'.local

\* the severity buckets as the spec states them
Bucket(blocks_behind) ==
    CASE blocks_behind >= 1000 -> "critical"
      [] blocks_behind >= 100 /\ blocks_behind < 1000 -> "high"
      [] blocks_behind >= 10 /\ blocks_behind < 100 -> "medium"
      [] OTHER -> "low"

C5_UpdateInPlace ==
    [][(SuccessfulStep /\ current_desync # NoEvent /\ StepBehind >= desync_threshold) =>
          /\ current_desync' = current_desync
          /\ active_desyncs' = active_desyncs
          /\ Len(events') = Len(events)
          /\ \A i \in DOMAIN events : i # current_desync => events'[i] = events[i]
          /\ events'[current_desync].blocks_behind = StepBehind
          /\ events'[current_desync].network_block = RawHeight(last'.resp)
          /\ last'.dcalls = <<>>
          /\ last'.rcalls = <<>>
          /\ UNCHANGED <<desync_emitted, recovery_emitted>>
    ]_vars

\* an incident detected 3 blocks behind reference 20 and refreshed against 120
C5_Witness ==
    /\ last.kind = "update"
    /\ current_desync = 1
    /\ events[1].severity = "low"
    /\ events[1].network_block = 120
    /\ events[1].blocks_behind > 100

C7_ReferenceFailureNoTransition ==
    [][(CycleStep /\ last'.local # None /\ RawHeight(last'.resp) = None) =>
          /\ UNCHANGED <<current_desync, active_desyncs, events>>
          /\ UNCHANGED <<store_log, desync_emitted, recovery_emitted>>
          /\ last'.stored = <<>>
          /\ last'.dcalls = <<>>
          /\ last'.rcalls = <<>>
    ]_vars

\* the reference fetch timed out while an incident was active
C7_Witness ==
    /\ last.kind = "no_ref"
    /\ last.resp.kind = "timeout"
    /\ consensus_rpc_url
    /\ current_desync = 1
    /\ is_active(events[1])
    /\ Len(store_log) = 1

C9_CallbacksAllRunInOrder ==
    [][CycleStep =>
          /\ desync_emitted' # desync_emitted =>
                /\ last'.dcalls = desync_callbacks
                /\ last'.raised \subseteq DOMAIN desync_callbacks
                /\ current_desync' = desync_emitted'[Len(desync_emitted')]
                /\ active_desyncs' = <<current_desync'>>
          /\ recovery_emitted' # recovery_emitted =>
                /\ last'.rcalls = recovery_callbacks
                /\ last'.raised \subseteq DOMAIN recovery_callbacks
                /\ current_desync' = NoEvent
                /\ active_desyncs' = <<>>
    ]_vars

\* the first of two recovery callbacks raised; the second was still called
C9_Witness ==
    /\ last.kind = "recover"
    /\ last.raised = {1}
    /\ last.rcalls = <<1, 2>>
    /\ current_desync = NoEvent

Rank(severity) ==
    CASE severity = "low" -> 0
      [] severity = "medium" -> 1
      [] severity = "high" -> 2
      [] severity = "critical" -> 3

\* C10: severity is critical from 1000 blocks behind, high from 100, medium
\* from 10, else low, and a larger blocks-behind never has a lower severity.
C10_SeverityBucketsMonotonic ==
    sev_out # <<>> =>
       /\ sev_out[1] = Bucket(sev_in[1])
       /\ sev_out[2] = Bucket(sev_in[2])
       /\ sev_in[1] <= sev_in[2] => Rank(sev_out[1]) <= Rank(sev_out[2])

\* 999 is high and 1000 is critical
C10_Witness ==
    /\ sev_in = <<999, 1000>>
    /\ sev_out = <<"high", "critical">>

\* the outcomes call_method is to turn into a failure result: transport,
\* timeout, HTTP status, JSON parsing, the error object of the node
FailureOutcome(outcome) ==
    \/ outcome.kind # "ok"
    \/ outcome.body \in {"invalid", "error", "error_nomsg"}

\* C11: call_method never raises to its caller; for every transport, timeout,
\* HTTP-status, JSON-parsing or RPC-error outcome, on either transport, it
\* returns an IPCResponse with success = false, an error message and the
\* method name.
C11_CallMethodNeverRaises ==
    returned.op = "call_method" =>
       /\ ~returned.result.raised
       /\ FailureOutcome(returned.outcome) =>
             /\ returned.result.success = FALSE
             /\ returned.result.error # NoneStr
             /\ returned.result.method = returned.method

\* C12: when the exchange succeeds (HTTP 200, or a line read from the socket)
\* and the JSON-RPC response holds an error object, call_method returns a
\* result with success = false whose error is the message of the error object;
\* it is never a success.
C12_RpcErrorIsFailure ==
    (/\ returned.op = "call_method"
     /\ returned.outcome.kind = "ok"
     /\ returned.outcome.body \in {"error", "error_nomsg"}) =>
       /\ ~returned.result.raised
       /\ returned.result.success = FALSE
       /\ returned.outcome.body = "error" => returned.result.error = RpcMessage

\* the transport every request so far went to is the one chosen at
\* construction, and a client built without a path chose HTTP
TransportAsConstructed ==
    /\ \A c \in Clients : ~ipc_path[c] => _use_http[c]
    /\ \A i \in DOMAIN requests : requests[i].http = _use_http[requests[i].client]
    /\ \A p \in pending : p.http = _use_http[p.client]

\* C13: the transport is chosen once, at construction: a client built with no
\* socket path, or with a path that did not exist, uses HTTP for every call even
\* if the socket appears later; a client built with an existing socket never
\* uses HTTP, and when its socket has disappeared its calls return failure
\* results.
C13_TransportFixedAtConstruction ==
    /\ TransportAsConstructed
    /\ (/\ returned.op = "call_method"
        /\ ~returned.http
        /\ ~returned.exists) =>
          /\ ~returned.result.raised
          /\ returned.result.success = FALSE

\* the requests of one client, in invocation order
RequestsOf(c) == SelectSeq(requests, LAMBDA r : r.client = c)

\* C14: the n-th call_method of a client sends id n: its ids are 1, 2, 3, ...
\* in invocation order whether the calls succeed or fail, two calls in flight
\* at once never carry the same id, and each client counts on its own.
C14_RequestIdsCountFromOne ==
    /\ \A c \in Clients :
          /\ Len(RequestsOf(c)) = _request_id[c]
          /\ \A n \in DOMAIN RequestsOf(c) : RequestsOf(c)[n].id = n
    /\ \A p, q \in pending : (p.client = q.client /\ p.id = q.id) => p = q
    /\ \A p \in pending : p.id \in 1.._request_id[p.client]

\* client 1 has made three calls, two of them still in flight and one failed,
\* while client 2 has made its first
C14_Witness ==
    /\ _request_id = <<3, 1>>
    /\ Cardinality({p \in pending : p.client = 1}) = 2
    /\ returned.op = "call_method"
    /\ returned.client = 1
    /\ returned.outcome.kind = "refused"
    /\ RequestsOf(2) = <<[client |-> 2, id |-> 1, method |-> "net_peerCount",
                          http |-> TRUE]>>

\* C15: a body that is empty or malformed (an empty read, invalid JSON, or a
\* JSON object with neither result nor error) yields a failure result on both
\* transports; for such a body call_method never returns success = true with
\* data = null.
C15_MalformedBodyIsFailure ==
    (/\ returned.op = "call_method"
     /\ returned.outcome.kind = "ok"
     /\ returned.outcome.body \in {"empty", "invalid", "neither"}) =>
       /\ ~returned.result.raised
       /\ returned.result.success = FALSE
       /\ ~(returned.result.success /\ returned.result.data = Null)

\* the call did not produce a response: no exchange, no body, no JSON, or an
\* error object
CallFailed(outcome) == FailureOutcome(outcome) \/ outcome.body = "empty"

\* the height a field of the eth_syncing object stands for
FieldHeight(digits) == IF digits = Missing THEN 0 ELSE HexToInt(digits)

\* get_sync_status made its calls in the order eth_syncing, eth_blockNumber
SyncStatusCallOrder ==
    LET mine == RequestsOf(returned.client)
    IN IF returned.method = "eth_syncing"
       THEN /\ mine[returned.id].method = "eth_syncing"
            /\ CallFailed(returned.outcome)
       ELSE /\ mine[returned.first].method = "eth_syncing"
            /\ mine[returned.id].method = "eth_blockNumber"
            /\ returned.first < returned.id

\* the status get_sync_status builds from two well-formed results
SyncStatusComposition ==
    (/\ returned.method = "eth_blockNumber"
     /\ returned.outcome.body = "result"
     /\ returned.outcome.value.kind = "str"
     /\ HexToInt(returned.outcome.value.digits) # None) =>
       /\ returned.syncing = False =>
             returned.status =
                [kind |-> "status", is_syncing |-> FALSE,
                 current_block |-> HexToInt(returned.outcome.value.digits),
                 highest_block |-> HexToInt(returned.outcome.value.digits)]
       /\ (/\ returned.syncing.kind = "dict"
           /\ FieldHeight(returned.syncing.currentBlock) # None
           /\ FieldHeight(returned.syncing.highestBlock) # None) =>
             /\ returned.status.kind = "status"
             /\ returned.status.current_block =
                   FieldHeight(returned.syncing.currentBlock)
             /\ returned.status.highest_block =
                   FieldHeight(returned.syncing.highestBlock)

\* C16: get_sync_status calls eth_syncing first and eth_blockNumber second and
\* returns no status when either call fails, without making the second call
\* after a failed first one; when eth_syncing returns false, current_block and
\* highest_block are the fetched block number; otherwise they are currentBlock
\* and highestBlock of the payload, 0 for a missing one.
C16_SyncStatusFromTwoCalls ==
    returned.op = "get_sync_status" =>
       /\ SyncStatusCallOrder
       /\ CallFailed(returned.outcome) => returned.status = NoStatus
       /\ SyncStatusComposition

\* a result that is no hexadecimal height: null, or a string int(x, 16) rejects
NoHeight(value) ==
    \/ value.kind = "null"
    \/ value.kind = "str" /\ HexToInt(value.digits) = None

\* the response carried a result, or none, that is no height
NoHeightReturned ==
    /\ returned.outcome.kind = "ok"
    /\ returned.outcome.body \in {"result", "neither"}
    /\ NoHeight(returned.outcome.value)

\* C17: when the result that should be a hexadecimal height is non-numeric or
\* missing, get_latest_block and the heights of get_sync_status do not come out
\* as the integer 0: the operation reports that the height could not be
\* retrieved.
C17_NoHeightIsNotZero ==
    /\ (returned.op = "get_latest_block" /\ NoHeightReturned) =>
          returned.value # 0
    /\ (/\ returned.op = "get_sync_status"
        /\ returned.method = "eth_blockNumber"
        /\ returned.status.kind = "status") =>
          /\ (returned.syncing = False /\ NoHeightReturned) =>
                /\ returned.status.current_block # 0
                /\ returned.status.highest_block # 0
          /\ (/\ returned.syncing.kind = "dict"
              /\ returned.syncing.highestBlock # Missing
              /\ HexToInt(returned.syncing.highestBlock) = None) =>
                returned.status.highest_block # 0

\* C18: the events the monitor creates during one run have pairwise different
\* event ids, also an incident detected right after a recovery.
C18_EventIdsUnique ==
    \A i, j \in DOMAIN events :
       i # j => events[i].event_id # events[j].event_id

\* max(0, reference_height - local_block) of the cycle
ClampedBehind == IF StepBehind < 0 THEN 0 ELSE StepBehind

\* C19: the threshold comparison uses blocks_behind clamped to >= 0: with the
\* local height above the reference the cycle counts as 0 blocks behind, and
\* for every threshold, also one <= 0, the cycle detects, updates, recovers or
\* does nothing as max(0, reference - local) >= threshold decides.
C19_ComparisonUsesClampedBehind ==
    [][SuccessfulStep =>
          IF ClampedBehind >= desync_threshold
          THEN IF current_desync = NoEvent
               THEN /\ last'.kind = "detect"
                    /\ events'[current_desync'].blocks_behind = ClampedBehind
               ELSE /\ last'.kind = "update"
                    /\ events'[current_desync'].blocks_behind = ClampedBehind
          ELSE IF current_desync # NoEvent
               THEN last'.kind = "recover"
               ELSE last'.kind = "noop"
    ]_vars

\* C20: SyncStatus.blocks_behind is highest_block - current_block whenever
\* highest_block >= current_block and 0 whenever highest_block < current_block;
\* it is never negative.
C20_BlocksBehindClamped ==
    observed # <<>> =>
       /\ sync_status.highest_block >= sync_status.current_block =>
             observed.blocks_behind =
                sync_status.highest_block - sync_status.current_block
       /\ sync_status.highest_block < sync_status.current_block =>
             observed.blocks_behind = 0
       /\ observed.blocks_behind >= 0

\* a node 50 blocks ahead of the highest block it reports is 0 blocks behind
C20_Witness ==
    /\ sync_status.current_block = 100
    /\ sync_status.highest_block = 50
    /\ observed # <<>>
    /\ observed.blocks_behind = 0

\* C21: for every SyncStatus (any is_syncing, any non-negative current,
\* highest and optional starting height, current_block > highest_block
\* included) sync_progress lies in [0, 1], and it is exactly 1 when the node
\* is not syncing.
C21_SyncProgressInUnitInterval ==
    observed # <<>> =>
       /\ observed.sync_progress.den > 0
       /\ 0 <= observed.sync_progress.num
       /\ observed.sync_progress.num <= observed.sync_progress.den
       /\ ~sync_status.is_syncing =>
             observed.sync_progress.num = observed.sync_progress.den

\* the verdicts of the latest iteration on samples tested against a baseline
\* of at least 10 samples with mean 100 and std 10, at threshold 2.5
EstablishedTests ==
    {i \in DOMAIN poll.tests :
        LET name == poll.tests[i].sample.name
        IN  /\ anomaly_threshold_std = Ratio(5, 2)
            /\ name \in DOMAIN poll.baselines
            /\ poll.baselines[name].sample_count >= MinBaselineSamples
            /\ poll.baselines[name].mean.num = 100 * poll.baselines[name].mean.den
            /\ poll.baselines[name].variance.num
                  = 100 * poll.baselines[name].variance.den}

\* the verdict is an anomaly of deviation 3.0 with this type and severity
ThreeSigma(v, type, severity) ==
    /\ v.verdict = "anomaly"
    /\ v.anomaly.deviation_score.num = 9 * v.anomaly.deviation_score.den
    /\ v.anomaly.anomaly_type = type
    /\ v.anomaly.severity = severity

\* C23 as stated: with an established baseline of mean 100 and std 10 and
\* threshold 2.5, a sample of 100 produces no anomaly, a sample of 130 an
\* anomaly with deviation 3.0, type spike and severity high, and a sample of
\* 70 an anomaly with deviation 3.0 and type drop.
C23_ExampleSeverityHigh ==
    \A i \in EstablishedTests :
       LET v == poll.tests[i]
       IN  /\ v.sample.value = 100 => v.verdict = "normal"
           /\ v.sample.value = 130 => ThreeSigma(v, "spike", "high")
           /\ v.sample.value = 70 =>
                 /\ v.verdict = "anomaly"
                 /\ v.anomaly.deviation_score.num = 9 * v.anomaly.deviation_score.den
                 /\ v.anomaly.anomaly_type = "drop"

\* C23, amended: the same example, where the anomaly of the sample of 130 has
\* deviation 3.0, type spike and severity medium (3.0 is above 2.5 and not
\* above 3.5), and so has the anomaly of the sample of 70, of type drop.
C23_ExampleSeverityMedium ==
    \A i \in EstablishedTests :
       LET v == poll.tests[i]
       IN  /\ v.sample.value = 100 => v.verdict = "normal"
           /\ v.sample.value = 130 => ThreeSigma(v, "spike", "medium")
           /\ v.sample.value = 70 => ThreeSigma(v, "drop", "medium")

\* five samples of 90 and five of 110 are the baseline, then 130 is collected
C23_Witness ==
    /\ \E i \in EstablishedTests :
          /\ poll.tests[i].sample.value = 130
          /\ ThreeSigma(poll.tests[i], "spike", "medium")
    /\ Len(anomaly_log) = 1

\* the verdict v on a sample follows the rule, for a baseline b of at least 10
\* samples with std > 0.  With mean = total/n and variance = D/(n*n),
\* |value - mean| / std > limit is (value*n - total)^2 * q^2 > p^2 * D for
\* limit = p/q.
FollowsRule(v, b, threshold) ==
    LET d == v.sample.value * b.mean.den - b.mean.num
        over(p, q) == d * d * q * q > p * p * b.variance.num
    IN  /\ v.verdict = "anomaly" <=> over(threshold.num, threshold.den)
        /\ v.verdict # "anomaly" => v.verdict = "normal"
        /\ v.verdict = "anomaly" =>
              /\ v.anomaly.metric_name = v.sample.name
              /\ v.anomaly.current_value = v.sample.value
              /\ v.anomaly.anomaly_type = "spike"
                    <=> v.sample.value * b.mean.den > b.mean.num
              /\ v.anomaly.anomaly_type \in {"spike", "drop"}
              /\ v.anomaly.severity =
                    IF over(5, 1) THEN "critical"
                    ELSE IF over(7, 2) THEN "high"
                    ELSE IF over(5, 2) THEN "medium"
                    ELSE "low"

\* the samples of a verdict sequence that have an eligible baseline with std > 0
Eligible(tests, baselines) ==
    {i \in DOMAIN tests :
        /\ tests[i].sample.name \in DOMAIN baselines
        /\ baselines[tests[i].sample.name].sample_count >= MinBaselineSamples
        /\ baselines[tests[i].sample.name].variance.num > 0}

\* C24: for every incoming sample of a metric with an eligible baseline and
\* std > 0, an anomaly is emitted iff |value - mean| / std > threshold; its
\* type is spike iff value > mean, else drop; its severity is critical for a
\* deviation > 5.0, high for > 3.5, medium for > 2.5, else low; anomalies are
\* not deduplicated: every cycle stores one anomaly per deviating sample and
\* calls every callback for it, whatever was stored before.
C24_AnomalyRule ==
    [][polls' = polls + 1 /\ poll'.outcome = "collected" =>
          /\ \A i \in Eligible(poll'.tests, metric_baselines) :
                FollowsRule(poll'.tests[i],
                            metric_baselines[poll'.tests[i].sample.name],
                            anomaly_threshold_std)
          /\ anomaly_log' = anomaly_log \o Anomalies(poll'.tests)
          /\ stats'.anomalies_detected
                = stats.anomalies_detected + Len(Anomalies(poll'.tests))
          /\ Len(anomaly_notified') = Len(anomaly_notified)
                + Len(Anomalies(poll'.tests)) * Len(anomaly_callbacks)
    ]_vars

\* two consecutive iterations each stored an anomaly of the same metric, the
\* second one of severity high, with a callback registered
C24_Witness ==
    /\ Len(anomaly_log) = 2
    /\ anomaly_log[1].metric_name = anomaly_log[2].metric_name
    /\ anomaly_log[1].detected_at < anomaly_log[2].detected_at
    /\ anomaly_log[2].severity = "high"
    /\ Len(anomaly_notified) = 2

\* the metrics whose baseline was computed from fewer than 10 samples
YoungBaselines ==
    {name \in DOMAIN metric_baselines :
        metric_baselines[name].sample_count < MinBaselineSamples}

\* C25: a metric whose baseline was computed from fewer than 10 samples is
\* never flagged: in every cycle a sample of such a metric is skipped and
\* produces no anomaly, no store_anomaly call and no callback.
C25_YoungBaselineNeverFlagged ==
    [][polls' = polls + 1 =>
          /\ \A i \in DOMAIN poll'.tests :
                poll'.tests[i].sample.name \in YoungBaselines =>
                   /\ poll'.tests[i].verdict = "few_samples"
                   /\ poll'.tests[i].anomaly = NoAnomaly
          /\ \A i \in DOMAIN anomaly_log' :
                i > Len(anomaly_log) =>
                   anomaly_log'[i].metric_name \notin YoungBaselines
          /\ \A i \in DOMAIN anomaly_notified' :
                i > Len(anomaly_notified) =>
                   anomaly_notified'[i][2].metric_name \notin YoungBaselines
    ]_vars

\* a sample of 160 is skipped against a baseline of two samples (100 and 125)
\* that it deviates from by more than the threshold
C25_Witness ==
    /\ poll.tests # <<>>
    /\ poll.tests[1].verdict = "few_samples"
    /\ poll.tests[1].sample.value = 160
    /\ poll.baselines["m"].sample_count = 2
    /\ Exceeds(Deviation(160, poll.baselines["m"]), anomaly_threshold_std)
    /\ anomaly_callbacks # <<>>
    /\ anomaly_log = <<>>
    /\ anomaly_notified = <<>>

\* C27: after every successful collection cycle recent_metrics contains the
\* snapshot just collected and no snapshot older than the configured baseline
\* window, for every configured window length.
C27_BufferHoldsTheWindow ==
    poll.outcome = "collected" =>
       /\ recent_metrics # <<>>
       /\ recent_metrics[Len(recent_metrics)] = collected[Len(collected)]
       /\ \A i \in DOMAIN recent_metrics :
             recent_metrics[i].timestamp >= poll.at - baseline_window * Minute

\* the values of a metric over the snapshots collected so far that are inside
\* the configured window at time t
WindowValues(name, t) ==
    metric_values(name, InWindow(collected, t - baseline_window * Minute))

\* C28: after every successful collection cycle, each entry of the baseline
\* table is the statistics (mean, population standard deviation, min, max,
\* count) of exactly the samples of that metric currently inside the window:
\* no entry survives from an earlier cycle for a metric that now has zero or
\* one in-window samples.
C28_BaselinesAreTheWindow ==
    poll.outcome = "collected" =>
       \A name \in DOMAIN metric_baselines :
          LET values == WindowValues(name, poll.at)
              entry == metric_baselines[name]
          IN  /\ Len(values) >= MinValues
              /\ entry.sample_count = Len(values)
              /\ entry.mean.num * Len(values) = SumSeq(values) * entry.mean.den
              /\ entry.min = MinOf(values)
              /\ entry.max = MaxOf(values)
              /\ entry.variance = Statistics(values, poll.at).variance

\* the snapshots collected before this iteration that hold a sample of the
\* metric and are inside the configured window at time t
EarlierInWindow(name, t) ==
    {j \in DOMAIN collected :
        /\ collected[j].timestamp >= t - baseline_window * Minute
        /\ \E k \in DOMAIN collected[j].samples :
              collected[j].samples[k].name = name}

\* C26: in every cycle the baseline a new sample is tested against is computed
\* from the window contents without that sample (the sample never contributes
\* to its own mean/std), and the sample is included in the baselines used in
\* all subsequent cycles while it remains in the window: the baseline tested
\* against is older than the sample, it is the statistics of the earlier
\* samples that are inside the window, and it is not older than any of them.
C26_TestedAgainstTheWindowBefore ==
    [][polls' = polls + 1 /\ poll'.outcome = "collected" =>
          \A i \in DOMAIN poll'.tests :
             LET name == poll'.tests[i].sample.name
                 values == WindowValues(name, poll'.at)
             IN  name \in DOMAIN metric_baselines =>
                    /\ poll'.baselines = metric_baselines
                    /\ metric_baselines[name].last_updated < poll'.at
                    /\ metric_baselines[name].sample_count = Len(values)
                    /\ metric_baselines[name].mean.num * Len(values)
                          = SumSeq(values) * metric_baselines[name].mean.den
                    /\ \A j \in EarlierInWindow(name, poll'.at) :
                          metric_baselines[name].last_updated
                             >= collected[j].timestamp
    ]_vars

\* C22: when every sample of a metric in the baseline window has the same
\* value, no anomaly is reported for the metric, whatever the value of its
\* next sample (the stream of SpecFloat is such a metric: count samples of
\* one value)
C22_ConstantStreamNeverFlagged ==
    (\A i, j \in DOMAIN StreamSamples : StreamSamples[i] = StreamSamples[j])
        => float_verdict # "anomaly"

C30_FailedPersistRetriedOnNextMutation ==
    [][/\ (cycles' # cycles /\ last'.kind = "detect" /\ last'.persist # "stored")
             => /\ current_desync' # NoEvent
                /\ current_desync' \notin DOMAIN events
                /\ last'.dcalls = desync_callbacks
                /\ Len(store_log') = Len(store_log) + 1
       /\ (cycles' # cycles /\ last.kind = "detect" /\ last.persist # "stored"
               /\ last'.kind \in {"update", "recover"})
             => /\ Len(store_log') = Len(store_log) + 1
                /\ store_log'[Len(store_log')].event_id
                       = events[current_desync].event_id]_vars

\* C40: a same-incident update writes only blocks_behind, network_block and
\* local_block of the active event: its event id, detection timestamp, peer
\* count and severity (and its recovery fields) keep the values of the
\* detection, so the severity of an active event can differ from the bucket of
\* its current blocks_behind.
C40_UpdateKeepsDetectionFields ==
    [][(CycleStep /\ last'.kind = "update") =>
          /\ events'[current_desync].blocks_behind = StepBehind
          /\ events'[current_desync].network_block = RawHeight(last'.resp)
          /\ events'[current_desync].local_block = last'.local
          /\ events'[current_desync] =
                [events[current_desync] EXCEPT
                    !.blocks_behind = events'[current_desync].blocks_behind,
                    !.network_block = events'[current_desync].network_block,
                    !.local_block = events'[current_desync].local_block]
    ]_vars

\* an active event updated to a distance of another bucket than its severity
C40_Witness ==
    /\ last.kind = "update"
    /\ current_desync # NoEvent
    /\ events[current_desync].severity
          # Bucket(events[current_desync].blocks_behind)

\* C39: after every cycle, whatever detections, same-incident updates and
\* failed cycles came before, the event in the active slot has
\* blocks_behind = network_block - local_block and blocks_behind >= threshold.
C39_ActiveEventConsistent ==
    current_desync # NoEvent =>
        /\ events[current_desync].blocks_behind =
              events[current_desync].network_block - events[current_desync].local_block
        /\ events[current_desync].blocks_behind >= desync_threshold

\* an event detected at local 17, updated at local 18 against reference 120,
\* and still active after a cycle that failed
C39_Witness ==
    /\ cycles = 3
    /\ last.kind \in {"no_local", "no_ref"}
    /\ current_desync = 1
    /\ events[1].local_block = 18
    /\ events[1].network_block = 120

\* C38: at every point where another task can run (every await of a cycle and
\* every state between cycles), active_desyncs is the one-element list of the
\* event in the active slot when the slot is filled, and the empty list when
\* the slot is empty.
C38_ActiveListMirrorsSlot ==
    active_desyncs = IF current_desync = NoEvent THEN <<>> ELSE <<current_desync>>

\* the task is suspended in the store of a recovery: the incident is sealed
\* and still in the slot and in the list
C38_Witness ==
    /\ step.at = "store"
    /\ step.handler = "recover"
    /\ current_desync = 1
    /\ active_desyncs = <<1>>
    /\ ~is_active(events[1])

\* the step in which the task of the monitor is cancelled
Interrupted == ~shutdown /\ shutdown'

\* C31: when the shutdown interrupts a cycle at an await, the state left is
\* the one before the cycle or the one after its whole transition: an event
\* the interrupted detection put in the active slot has been handed to
\* store_desync_event and to the desync observers, and an event the
\* interrupted recovery sealed is no longer in the active slot.
C31_InterruptedCycleAllOrNothing ==
    [][/\ (Interrupted /\ step.handler = "detect" /\ current_desync' # NoEvent)
             => /\ \E n \in DOMAIN store_log' :
                      store_log'[n].event_id = events'[current_desync'].event_id
                /\ \E n \in DOMAIN desync_emitted' :
                      desync_emitted'[n] = current_desync'
       /\ (Interrupted /\ step.handler = "recover" /\ current_desync' # NoEvent)
             => is_active(events'[current_desync'])]_vars

\* C35: between two cycles the event in the active slot, if any, has no
\* recovery timestamp, and a cycle never writes a field of an event that was
\* sealed before it; both also when get_peer_count, the store or an observer
\* raises in the middle of the recovery handling.
C35_SealedEventsLeaveSlotAndAreFrozen ==
    [][/\ (step'.at = "sleep" /\ current_desync' # NoEvent)
             => is_active(events'[current_desync'])
       /\ \A n \in DOMAIN events :
             ~is_active(events[n]) => events'[n] = events[n]]_vars

\* C36: every emission to the recovery observers for an event comes after
\* exactly one emission to the desync observers for the same event id; an
\* incident whose detection handling failed after the slot was set is never
\* reported as recovered without having been announced.
C36_RecoveryFollowsOneAnnouncement ==
    \A n \in DOMAIN recovery_emitted :
        Cardinality({k \in DOMAIN desync_emitted :
                        events[desync_emitted[k]].event_id
                           = events[recovery_emitted[n]].event_id}) = 1

(***************************************************************************)
(* The table desync_events                                                 *)
(***************************************************************************)

\* the keys at the top level of the dictionary of _create_detailed_event_data;
\* recovery_time and duration_seconds are keys of its desync_details
EventDataKeys ==
    {"event_metadata", "desync_details", "peer_analysis", "metrics_context",
     "system_context"}

\* event_data.get(key) at the top level, as store_desync_event reads
\* recovery_time: None for a key that is not there
TopLevelGet(key, nested) == IF key \in EventDataKeys THEN nested ELSE None

\* the row store_desync_event binds to its INSERT OR REPLACE
DesyncRow(event_data) ==
    [event_id |-> event_data.event_id,
     detected_at |-> event_data.timestamp,
     recovered_at |-> TopLevelGet("recovery_time", event_data.recovery_time),
     local_block |-> event_data.local_block_height,
     network_block |-> event_data.consensus_block_height,
     blocks_behind |-> event_data.blocks_behind]

\* the table after the calls of log on an open connection: event_id is its
\* primary key, a later row replaces an earlier one
DesyncTable(log) ==
    {DesyncRow(log[n]) : n \in {k \in DOMAIN log :
        \A j \in DOMAIN log : log[j].event_id = log[k].event_id => j <= k}}

\* get_recent_desyncs over rows newer than its cutoff of 30 days
get_recent_desyncs(table) ==
    {[event_id |-> row.event_id,
      detected_at |-> row.detected_at,
      recovered_at |-> row.recovered_at,
      blocks_behind |-> row.blocks_behind,
      duration |-> IF row.recovered_at # None /\ row.recovered_at # 0
                   THEN row.recovered_at - row.detected_at
                   ELSE None] : row \in table}

\* C37: once the data of a recovered event has been stored on an open
\* connection, the row of its event id has a recovered_at that is not null,
\* and get_recent_desyncs reports a duration for it
C37_StoredRecoveryCarriesTimestamp ==
    \A n \in DOMAIN store_log :
       (/\ store_log[n].recovery_time # None
        /\ database = "open")
          => \E entry \in get_recent_desyncs(DesyncTable(store_log)) :
                /\ entry.event_id = store_log[n].event_id
                /\ entry.recovered_at # None
                /\ entry.duration # None

\* C32: after the shutdown signal the loop of the monitor finishes the cycle
\* it is in; it is not ended while it awaits a network response, and once
\* shut down it starts no further cycle.
C32_ShutdownLetsCycleFinish ==
    [][/\ Interrupted => step.at \notin NetworkAwaits
       /\ shutdown => (cycles' = cycles /\ step' = NoStep /\ ~is_running')]_vars

\* the names _determine_network can give
NetworkNames == {chain_id_to_network[c] : c \in DOMAIN chain_id_to_network}

\* C34: for a node that answers, whatever its chain id and whatever the socket
\* path of the probe, no path included, _determine_network gives a network
\* name: it does not raise.
C34_DetermineNetworkNeverRaises ==
    (probe.node_info # "none" /\ probe.reachable)
       => probe.network \in NetworkNames

\* the collector gets its answers
CollectorAnswered == WF_vars(collector_resumes)

\* the monitor gets its answers
MonitorAnswers == WF_vars(MonitorAnswered)

\* C33: the two loops are independent.  While the collector gets its answers
\* it completes its iterations, however long the monitor stays suspended at an
\* await and also after the monitor has ended with an exception; and the
\* monitor completes its cycles while it gets its answers, whatever the
\* collector does.
C33_LoopsIndependent ==
    /\ CollectorAnswered
          => [](is_collecting => <>(polls = LoopPolls \/ ~is_collecting))
    /\ MonitorAnswers
          => [](is_running
                   => <>((cycles = TaskCycles /\ step.at = "sleep") \/ ~is_running))

\* the collector has completed its iterations while the monitor is suspended
\* in the request to the consensus endpoint of its first cycle
C33_Witness ==
    /\ is_running
    /\ cycles = 1
    /\ step.at = "fetch"
    /\ is_collecting
    /\ polls = LoopPolls

====
